---- MODULE Spec2Model ----
(***************************************************************************)
(* A model of the iDDS reconciliation core:                                *)
(*   - the Transform / Processing repositories (orm/transforms.py,         *)
(*     orm/processings.py): due-work selection, update, the stale-lock     *)
(*     reaper, driven by agents that select, mark Locked, work, release;   *)
(*   - the stage-in Work (atlas/workflow/atlasstageinwork.py): processing  *)
(*     creation, rule submission, rule polling, transform rollup.          *)
(***************************************************************************)
EXTENDS Integers, Sequences, FiniteSets, TLC

(***************************************************************************)
(* Bounds of the model.                                                    *)
(***************************************************************************)
NumRows == 2
MaxTime == 3
TimePeriod == 1
MaxProcessings == 2
MaxRuleCalls == 2

None == "None"

(***************************************************************************)
(* Part 1: the repositories.                                               *)
(***************************************************************************)
VARIABLES
    table,      \* which repository the run is over: "Transform" or "Processing"
    rows,       \* the table: row id -> row
    now,        \* datetime.datetime.utcnow(), in model time units
    pc,         \* each agent's position in its tick
    batch       \* the rows an agent was handed by its selection, not yet released

dbvars == <<table, rows, now, pc, batch>>

\* The stage-in Work object (Part 2).
VARIABLES
    rule_id_arg,         \* self.rule_id, the constructor's rule_id argument
    has_lifetime,        \* whether the object has an attribute named lifetime
    coll_status,         \* status of the primary input collection
    processings,         \* self.processings: internal id -> processing
    active_processings,  \* self.active_processings: internal ids
    has_new_inputs,      \* self.has_new_inputs()
    work_status,         \* self.status
    rule_calls,          \* add_replication_rule calls made so far, by internal id
    op                   \* the last call: its arguments and what came back

workvars == <<rule_id_arg, has_lifetime, coll_status, processings, active_processings,
              has_new_inputs, work_status, rule_calls, op>>

\* The other tables of the store and the caller's view of it (Part 3).
VARIABLES
    messages,        \* the Message table: the rows committed, in insertion order
    req2transform,   \* the Req2transform table: <<request_id, transform_id>> rows
    wp2transform,    \* the Workprogress2transform table: <<workprogress_id, transform_id>> rows
    session,         \* the caller's open session: its uncommitted view of the tables
    next_id,         \* the next value of the table's id sequence
    ret              \* the last repository call: its arguments and what came back

storevars == <<messages, req2transform, wp2transform, session, next_id, ret>>

\* The transform's registered maps and the DataService, across ticks (Part 4).
VARIABLES
    contents,   \* the registered input/output map table, with its output contents
    service     \* the DataService: the files it lists, its rules, their locks

tickvars == <<contents, service>>

vars == <<dbvars, workvars, storevars, tickvars>>

Agents == {"a1", "a2"}
RowIds == 1 .. NumRows
Tables == {"Transform", "Processing"}

Idle == "Idle"
Locking == "Locking"

\* The statuses an agent polls for, and those it may write on release.
DueStatuses(tbl) ==
    IF tbl = "Transform" THEN {"New", "Transforming"} ELSE {"New", "Submitted"}
ReleaseStatuses(tbl) ==
    IF tbl = "Transform" THEN {"Transforming", "Finished"} ELSE {"Submitted", "Finished"}

\* create_transform / create_processing defaults: status New, locking Idle.
NewRow(prio) ==
    [status |-> "New", locking |-> Idle, priority |-> prio,
     updated_at |-> 0, next_poll_at |-> 0, finished_at |-> -1]

\* The statuses after which update_transform / update_processing stamp finished_at.
FinishedAtStatuses(tbl) ==
    IF tbl = "Transform" THEN {"Finished", "Failed"}
    ELSE {"Finished", "Failed", "Lost"}

\* update_transform / update_processing that leave updated_at as it is.
update_row_unstamped(tbl, tab, id, parameters, t) ==
    [r \in DOMAIN tab |->
        IF r # id THEN tab[r]
        ELSE [tab[r] EXCEPT
                !.finished_at =
                    IF "status" \in parameters.keys
                       /\ parameters.status \in FinishedAtStatuses(tbl)
                    THEN t ELSE @,
                !.status = IF "status" \in parameters.keys THEN parameters.status ELSE @,
                !.locking = IF "locking" \in parameters.keys THEN parameters.locking ELSE @,
                !.next_poll_at =
                    IF "next_poll_at" \in parameters.keys
                    THEN parameters.next_poll_at ELSE @]]

\* update_transform / update_processing: one UPDATE ... WHERE id = :id.
\* parameters: keys is the set of columns given, the other fields their values.
\* updated_at is always stamped; a missing id updates no row.
update_row(tbl, tab, id, parameters, t) ==
    [r \in DOMAIN tab |->
        IF r # id THEN tab[r]
        ELSE [tab[r] EXCEPT
                !.updated_at = t,
                !.finished_at =
                    IF "status" \in parameters.keys
                       /\ parameters.status \in FinishedAtStatuses(tbl)
                    THEN t ELSE @,
                !.status = IF "status" \in parameters.keys THEN parameters.status ELSE @,
                !.locking = IF "locking" \in parameters.keys THEN parameters.locking ELSE @,
                !.next_poll_at =
                    IF "next_poll_at" \in parameters.keys
                    THEN parameters.next_poll_at ELSE @]]

Params(keys, status, locking, next_poll_at) ==
    [keys |-> keys, status |-> status, locking |-> locking, next_poll_at |-> next_poll_at]

\* The WHERE clause of get_transforms_by_status / get_processings_by_status.
\* period and bulk_size are tested by truthiness ("if period:", "if bulk_size:"):
\* None, here Unset, and the number 0 both skip the clause. get_processings_by_status
\* also takes a submitter ("if submitter:"); get_transforms_by_status has none.
Unset == -1
Truthy(x) == x # Unset /\ x # 0

\* The WHERE clause with next_poll_at <= utcnow() in place of <.
IsDue_inclusive(row, q, t) ==
    /\ row.status \in q.status
    /\ row.next_poll_at <= t
    /\ (Truthy(q.period) => row.updated_at < t - q.period)
    /\ (q.locking => row.locking = Idle)
    /\ (q.submitter # None => row.submitter = q.submitter)

IsDue(row, q, t) ==
    /\ row.status \in q.status
    /\ row.next_poll_at < t
    /\ (Truthy(q.period) => row.updated_at < t - q.period)
    /\ (q.locking => row.locking = Idle)
    /\ (q.submitter # None => row.submitter = q.submitter)

\* The ORDER BY with its two keys swapped: priority DESC first, then updated_at ASC.
MayPrecede_priority_first(tbl, r1, r2) ==
    IF tbl = "Transform"
    THEN \/ r1.priority > r2.priority
         \/ r1.priority = r2.priority /\ r1.updated_at <= r2.updated_at
    ELSE r1.updated_at <= r2.updated_at

\* ORDER BY updated_at ASC [, priority DESC for transforms]: r1 may precede r2.
MayPrecede(tbl, r1, r2) ==
    \/ r1.updated_at < r2.updated_at
    \/ /\ r1.updated_at = r2.updated_at
       /\ (tbl = "Transform" => r1.priority >= r2.priority)

Orderings(S) ==
    {s \in [1 .. Cardinality(S) -> S] : \A i, j \in 1 .. Cardinality(S) : i # j => s[i] # s[j]}

Min(a, b) == IF a < b THEN a ELSE b

\* The results the query can return: any ordering of the due rows that respects
\* ORDER BY (ties are the database's choice), cut at LIMIT bulk_size.
rows_by_status(tbl, tab, q, t) ==
    LET due == {r \in DOMAIN tab : IsDue(tab[r], q, t)}
        sorted == {s \in Orderings(due) :
                      \A i, j \in 1 .. Cardinality(due) :
                          i < j => MayPrecede(tbl, tab[s[i]], tab[s[j]])}
        n == IF Truthy(q.bulk_size) THEN Min(q.bulk_size, Cardinality(due))
             ELSE Cardinality(due)
    IN  {SubSeq(s, 1, n) : s \in sorted}

Range(s) == {s[i] : i \in DOMAIN s}

NoSession == [open |-> FALSE]
NoCall == [name |-> "none"]

\* The store besides the polled table: no message, no junction row, no open session.
StoreIdle ==
    /\ messages = <<>>
    /\ req2transform = {}
    /\ wp2transform = {}
    /\ session = NoSession
    /\ next_id = NumRows + 1
    /\ ret = NoCall

\* A DataService that lists nothing and has no rule.
NoService ==
    [files |-> <<>>, rules |-> {}, state |-> "REPLICATING",
     locks |-> [f \in {"f1", "f2"} |-> "REPLICATING"], stuck |-> {}]

TicksIdle ==
    /\ contents = <<>>
    /\ service = NoService

DBInit ==
    /\ StoreIdle
    /\ TicksIdle
    /\ table \in Tables
    /\ rows = [r \in RowIds |-> NewRow(r % 2)]
    /\ now = 1
    /\ pc = [a \in Agents |-> "idle"]
    /\ batch = [a \in Agents |-> <<>>]

\* The arguments of an agent's claim: the statuses it polls for, locking=True.
AgentQuery(tbl, bulk) ==
    [status |-> DueStatuses(tbl), period |-> Unset, locking |-> TRUE, bulk_size |-> bulk,
     submitter |-> None]

\* An agent starts a tick: get_*_by_status(status, locking=True, bulk_size), a read
\* session that returns the due rows and writes nothing.
Select(a) ==
    /\ pc[a] = "idle"
    /\ \E bulk \in 1 .. NumRows :
         \E res \in rows_by_status(table, rows, AgentQuery(table, bulk), now) :
            batch' = [batch EXCEPT ![a] = res]
    /\ pc' = [pc EXCEPT ![a] = "selected"]
    /\ UNCHANGED <<table, rows, now, workvars, storevars, tickvars>>

RECURSIVE update_all(_, _, _, _, _)
update_all(tbl, tab, ids, parameters, t) ==
    IF ids = <<>> THEN tab
    ELSE update_all(tbl, update_row(tbl, tab, Head(ids), parameters, t), Tail(ids), parameters, t)

\* The agent marks the rows it was handed: update_*(id, {'locking': Locking}) each.
Mark(a) ==
    /\ pc[a] = "selected"
    /\ rows' = update_all(table, rows, batch[a], Params({"locking"}, None, Locking, 0), now)
    /\ pc' = [pc EXCEPT ![a] = IF batch[a] = <<>> THEN "idle" ELSE "working"]
    /\ UNCHANGED <<table, now, batch, workvars, storevars, tickvars>>

\* The agent is done with a row: update_*(id, {locking: Idle, next_poll_at, [status]}).
Release(a) ==
    /\ pc[a] = "working"
    /\ batch[a] # <<>>
    /\ \E backoff \in {0, 1}, keys \in {{"locking", "next_poll_at"}, {"locking", "next_poll_at", "status"}},
          st \in ReleaseStatuses(table) :
         rows' = update_row(table, rows, Head(batch[a]),
                            Params(keys, st, Idle, now + backoff), now)
    /\ batch' = [batch EXCEPT ![a] = Tail(@)]
    /\ pc' = [pc EXCEPT ![a] = IF Tail(batch[a]) = <<>> THEN "idle" ELSE "working"]
    /\ UNCHANGED <<table, now, workvars, storevars, tickvars>>

\* clean_locking that resets every Locked row, whatever its age.
clean_locking_all(tab, time_period, t) ==
    [r \in DOMAIN tab |->
        IF tab[r].locking = Locking THEN [tab[r] EXCEPT !.locking = Idle] ELSE tab[r]]

\* clean_locking(time_period): UPDATE ... SET locking = 0 WHERE locking = Locking
\* AND updated_at < utcnow() - time_period.
clean_locking(tab, time_period, t) ==
    [r \in DOMAIN tab |->
        IF tab[r].locking = Locking /\ tab[r].updated_at < t - time_period
        THEN [tab[r] EXCEPT !.locking = Idle]
        ELSE tab[r]]

Reaper ==
    /\ rows' = clean_locking(rows, TimePeriod, now)
    /\ rows' # rows
    /\ UNCHANGED <<table, now, pc, batch, workvars, storevars, tickvars>>

\* Time passes.
Tick ==
    /\ now < MaxTime
    /\ now' = now + 1
    /\ UNCHANGED <<table, rows, pc, batch, workvars, storevars, tickvars>>

(***************************************************************************)
(* Part 2: the stage-in Work object (ATLASStageinWork) and the DataService *)
(* it talks to.  Maps and DataService answers are arguments of the calls.  *)
(***************************************************************************)
Files == {"f1", "f2"}
FileOrder == <<"f1", "f2">>

\* ContentStatus
ContentStatuses == {"New", "Processing", "Available", "Failed", "Lost", "Mapped"}

\* (status, substatus) of a persisted output content.
ContentStates ==
    {<<s, s>> : s \in ContentStatuses} \cup {<<"Processing", "Available">>}

\* One map entry of the input/output map table: one input file, one output content.
MapEntry(f, cs) ==
    [inputs |-> <<[name |-> f, primary |-> FALSE]>>,
     outputs |-> <<[name |-> f, content_id |-> f, status |-> cs[1], substatus |-> cs[2]]>>]

\* The map tables handed to the Work: keys 1..n, file k under key k.
MapTables ==
    UNION {{[k \in 1 .. n |-> MapEntry(FileOrder[k], c[k])] : c \in [1 .. n -> ContentStates]}
           : n \in 0 .. Len(FileOrder)}

\* The map tables of the lifecycle runs: every content in the same state.
TickTables ==
    UNION {{[k \in 1 .. n |-> MapEntry(FileOrder[k], <<c, c>>)] : c \in {"New", "Available", "Failed"}}
           : n \in 0 .. Len(FileOrder)}

\* All output contents of a map table, in iteration order.
RECURSIVE OutputsFrom(_, _)
OutputsFrom(maps, k) ==
    IF k > Len(maps) THEN <<>> ELSE maps[k].outputs \o OutputsFrom(maps, k + 1)

Outputs(maps) == OutputsFrom(maps, 1)


\* The Work object as constructed, before any call.
WorkIdle ==
    /\ coll_status = "Open"
    /\ processings = <<>>
    /\ active_processings = <<>>
    /\ has_new_inputs = TRUE
    /\ work_status = "New"
    /\ rule_calls = <<>>

WorkInit ==
    /\ rule_id_arg \in {None, "R9"}
    /\ has_lifetime \in BOOLEAN
    /\ WorkIdle

\* get_mapped_inputs: the primary input of each map entry: the first input, or the
\* last input whose content_metadata flags primary.
RECURSIVE primary_of(_, _)
primary_of(inputs, cur) ==
    IF inputs = <<>> THEN cur
    ELSE primary_of(Tail(inputs), IF Head(inputs).primary THEN Head(inputs) ELSE cur)

get_mapped_inputs(maps) ==
    [k \in DOMAIN maps |-> primary_of(maps[k].inputs, maps[k].inputs[1])]

\* The listings list_files can return for the primary input collection.
Listings == {<<>>} \cup {<<f>> : f \in Files} \cup {<<f, g>> : f \in Files, g \in Files}

max(S) == CHOOSE x \in S : \A y \in S : y <= x

RECURSIVE new_inputs_of(_, _)
new_inputs_of(inputs, mapped_names) ==
    IF inputs = <<>> THEN <<>>
    ELSE IF Head(inputs) \notin mapped_names
         THEN <<Head(inputs)>> \o new_inputs_of(Tail(inputs), mapped_names)
         ELSE new_inputs_of(Tail(inputs), mapped_names)

\* get_new_input_output_maps that maps every listed file, mapped already or not.
get_new_input_output_maps_unfiltered(maps, files, cstatus) ==
    LET next_key == IF DOMAIN maps # {} THEN max(DOMAIN maps) + 1 ELSE 1
    IN  IF files = <<>> /\ cstatus = "Closed"
        THEN [cleared |-> TRUE, new_keys |-> <<>>]
        ELSE [cleared |-> FALSE,
              new_keys |-> [i \in DOMAIN files |-> <<next_key + i - 1, files[i]>>]]

\* get_new_input_output_maps that clears has_new_inputs whenever it finds no new
\* file, whatever the status of the collection.
get_new_input_output_maps_eager(maps, files, cstatus) ==
    LET mapped == get_mapped_inputs(maps)
        mapped_names == {mapped[k].name : k \in DOMAIN mapped}
        new_inputs == new_inputs_of(files, mapped_names)
        next_key == IF DOMAIN maps # {} THEN max(DOMAIN maps) + 1 ELSE 1
    IN  IF new_inputs = <<>>
        THEN [cleared |-> TRUE, new_keys |-> <<>>]
        ELSE [cleared |-> FALSE,
              new_keys |-> [i \in DOMAIN new_inputs |-> <<next_key + i - 1, new_inputs[i]>>]]

\* get_new_input_output_maps whose first new key is max(mapped_keys), without the + 1.
get_new_input_output_maps_from_max(maps, files, cstatus) ==
    LET mapped == get_mapped_inputs(maps)
        mapped_names == {mapped[k].name : k \in DOMAIN mapped}
        new_inputs == new_inputs_of(files, mapped_names)
        next_key == IF DOMAIN maps # {} THEN max(DOMAIN maps) ELSE 1
    IN  IF new_inputs = <<>> /\ cstatus = "Closed"
        THEN [cleared |-> TRUE, new_keys |-> <<>>]
        ELSE [cleared |-> FALSE,
              new_keys |-> [i \in DOMAIN new_inputs |-> <<next_key + i - 1, new_inputs[i]>>]]

\* get_new_input_output_maps: the new entries as <<key, file>> pairs in discovery
\* order, and whether has_new_inputs is cleared.
get_new_input_output_maps(maps, files, cstatus) ==
    LET mapped == get_mapped_inputs(maps)
        mapped_names == {mapped[k].name : k \in DOMAIN mapped}
        new_inputs == new_inputs_of(files, mapped_names)
        next_key == IF DOMAIN maps # {} THEN max(DOMAIN maps) + 1 ELSE 1
    IN  IF new_inputs = <<>> /\ cstatus = "Closed"
        THEN [cleared |-> TRUE, new_keys |-> <<>>]
        ELSE [cleared |-> FALSE,
              new_keys |-> [i \in DOMAIN new_inputs |-> <<next_key + i - 1, new_inputs[i]>>]]

\* The coll_id of the primary input collection and of the first output collection.
InputColl == "in"
OutputColl == "out"

\* get_input_contents: the content of a listed file, in the primary input collection.
input_content(f) == [name |-> f, coll_id |-> InputColl, primary |-> FALSE]

\* Lines 177-180: the entry of a new input: the input, and a deep copy of it whose
\* coll_id is that of the first output collection.
new_input_output_map(ip) ==
    LET out_ip == [ip EXCEPT !.coll_id = OutputColl]
    IN  [inputs |-> <<ip>>, outputs |-> <<out_ip>>]

\* The dict get_new_input_output_maps returns: key -> entry.
new_input_output_maps(new_keys) ==
    [k \in {new_keys[i][1] : i \in DOMAIN new_keys} |->
        new_input_output_map(
            input_content(new_keys[CHOOSE i \in DOMAIN new_keys : new_keys[i][1] = k][2]))]

\* get_processing that reports no active processing even when there is one.
get_processing_blind(procs, active) == 0

\* get_processing: the first active processing, or None.
get_processing(procs, active) ==
    IF active # <<>> THEN active[1] ELSE 0

\* Work.add_processing_to_processings: register the processing under its internal id.
add_processing_to_processings(procs, proc) == Append(procs, proc)

\* create_processing: a processing whose metadata carries a fresh internal_id (the
\* next index) and the key rule_id set to self.rule_id; appended to the active ones.
new_processing(rid) == [has_rule_id |-> TRUE, rule_id |-> rid, status |-> "New"]

\* The answers the DataService can give to add_replication_rule / list_did_rules.
Account == "me"
DestRse == "DST"
DidRules ==
    {[id |-> "R0", account |-> Account, rse_expression |-> DestRse],
     [id |-> "R1", account |-> "other", rse_expression |-> DestRse],
     [id |-> "R2", account |-> Account, rse_expression |-> "ELSE"],
     [id |-> "R3", account |-> Account, rse_expression |-> DestRse]}
RuleLists == {<<>>} \cup {<<r>> : r \in DidRules} \cup {<<r, q>> : r \in DidRules, q \in DidRules}
NoAdd == [add |-> "none", rule |-> None, rule_list |-> <<>>, rules |-> <<>>]
AddAnswers ==
    {[add |-> "ok", rule |-> "R", rule_list |-> <<>>, rules |-> <<>>],
     [add |-> "list", rule |-> None, rule_list |-> <<"R", "R4">>, rules |-> <<>>],
     [add |-> "error", rule |-> None, rule_list |-> <<>>, rules |-> <<>>]}
    \cup {[add |-> "DuplicateRule", rule |-> None, rule_list |-> <<>>, rules |-> l]
             : l \in RuleLists}

\* The rule id a successful add_replication_rule stands for: the id itself, or the
\* first element of the list it returned.
ReturnedRule(ds) == IF ds.add = "list" THEN ds.rule_list[1] ELSE ds.rule

\* Lines 219-221: the first listed rule of this account and this destination.
RECURSIVE first_matching_rule(_)
first_matching_rule(rules) ==
    IF rules = <<>> THEN None
    ELSE IF Head(rules).account = Account /\ Head(rules).rse_expression = DestRse
         THEN Head(rules).id
         ELSE first_matching_rule(Tail(rules))

\* create_rule.  The arguments of add_replication_rule read self.lifetime, an attribute
\* this class never sets (it sets life_time): without it the AttributeError is caught
\* by "except Exception" and None is returned before any DataService call.  With it:
\* a rule id (the first of a list) on success; on DuplicateRule the handler subscripts
\* self.primary_input_collection, the collection's key, with 'scope', which raises
\* inside the handler and leaves create_rule; on any other error None.
create_rule(has_lt, ds) ==
    IF ~has_lt THEN [outcome |-> "returned", rule_id |-> None, called |-> FALSE]
    ELSE CASE ds.add \in {"ok", "list"} ->
                [outcome |-> "returned", rule_id |-> ReturnedRule(ds), called |-> TRUE]
           [] ds.add = "DuplicateRule" ->
                [outcome |-> "TypeError", rule_id |-> None, called |-> TRUE]
           [] OTHER ->
                [outcome |-> "returned", rule_id |-> None, called |-> TRUE]

\* submit_processing that creates a rule on every call, whatever the metadata holds.
submit_processing_always(p, has_lt, ds) ==
    LET r == create_rule(has_lt, ds)
    IN  [proc |-> IF r.outcome = "returned"
                  THEN [p EXCEPT !.has_rule_id = TRUE, !.rule_id = r.rule_id]
                  ELSE p,
         outcome |-> r.outcome, called |-> r.called]

\* submit_processing: creates the rule only when the first active processing's
\* metadata has no key rule_id.  Yields the processing and the create_rule result.
submit_processing(p, has_lt, ds) ==
    IF p.has_rule_id
    THEN [proc |-> p, outcome |-> "returned", called |-> FALSE]
    ELSE LET r == create_rule(has_lt, ds)
         IN  [proc |-> IF r.outcome = "returned"
                       THEN [p EXCEPT !.has_rule_id = TRUE, !.rule_id = r.rule_id]
                       ELSE p,
              outcome |-> r.outcome, called |-> r.called]

\* The answers of get_replication_rule / list_replica_locks.
LockStates == {"OK", "REPLICATING"}
NoRule == [kind |-> "none", state |-> None, locks_ok_cnt |-> 0, locks |-> [f \in Files |-> "REPLICATING"]]
RuleAnswers ==
    {[kind |-> k, state |-> None, locks_ok_cnt |-> 0, locks |-> [f \in Files |-> "REPLICATING"]]
        : k \in {"RuleNotFound", "error"}}
    \cup {[kind |-> "rule", state |-> st, locks_ok_cnt |-> n, locks |-> l]
        : st \in {"OK", "REPLICATING"}, n \in 0 .. 1, l \in [Files -> LockStates]}

\* The rule answers of the lifecycle runs: rule lost, replicating, done without and
\* with its locks reported.
TickAnswers ==
    {a \in RuleAnswers :
        \/ a.kind = "RuleNotFound"
        \/ a.kind = "rule" /\ a.locks_ok_cnt = 0 /\ \A f \in Files : a.locks[f] = "REPLICATING"
        \/ a.kind = "rule" /\ a.state = "OK" /\ a.locks_ok_cnt = 1
           /\ \A f \in Files : a.locks[f] = "OK"}

\* poll_rule: the keys ('scope:name', one scope here) of the replica locks in state OK,
\* listed only when locks_ok_cnt > 0; each is mapped to ContentStatus.Available.
poll_rule(active, ds) ==
    IF active = <<>> THEN [outcome |-> "IndexError", state |-> None, rep_status |-> {}]
    ELSE CASE ds.kind = "RuleNotFound" ->
                [outcome |-> "ProcessNotFound", state |-> None, rep_status |-> {}]
           [] ds.kind = "error" ->
                [outcome |-> "Exception", state |-> None, rep_status |-> {}]
           [] OTHER ->
                [outcome |-> "returned", state |-> ds.state,
                 rep_status |-> IF ds.locks_ok_cnt > 0
                                THEN {f \in Files : ds.locks[f] = "OK"} ELSE {}]

CountOf(outs, S) == Cardinality({i \in DOMAIN outs : outs[i].substatus \in S})

\* The deltas a poll that copied rep_status[key] into every differing content would emit.
RECURSIVE deltas_of(_, _)
deltas_of(outs, rep_status) ==
    IF outs = <<>> THEN <<>>
    ELSE (IF Head(outs).name \in rep_status /\ Head(outs).substatus # "Available"
          THEN <<[content_id |-> Head(outs).content_id, substatus |-> "Available"]>>
          ELSE <<>>) \o deltas_of(Tail(outs), rep_status)

\* poll_processing_updates that overwrites the substatus of every content the rule
\* reports, terminal or not.
poll_processing_updates_overwriting(active, maps, ds) ==
    LET polled == poll_rule(active, ds)
        outs == Outputs(maps)
        after == [i \in DOMAIN outs |->
                    IF outs[i].name \in polled.rep_status THEN "Available" ELSE outs[i].substatus]
        finished == Cardinality({i \in DOMAIN outs : after[i] = "Available"})
        unfinished == Len(outs) - finished
    IN  IF polled.outcome # "returned"
        THEN [outcome |-> polled.outcome, update_processing |-> None, updated_contents |-> <<>>]
        ELSE [outcome |-> "returned",
              update_processing |->
                  IF polled.state = "OK" /\ finished > 0 /\ unfinished = 0
                  THEN "Finished" ELSE None,
              updated_contents |-> deltas_of(outs, polled.rep_status)]

\* poll_processing_updates.  For an output whose key is in rep_status the code
\* evaluates rep_status[key]['substatus'], a subscript of a ContentStatus member:
\* TypeError, before any delta is recorded.  Otherwise the contents are counted by
\* substatus and the processing update is decided.
poll_processing_updates(active, maps, ds) ==
    LET polled == poll_rule(active, ds)
        outs == Outputs(maps)
        finished == CountOf(outs, {"Available"})
        unfinished == CountOf(outs, ContentStatuses \ {"Available"})
    IN  IF polled.outcome # "returned"
        THEN [outcome |-> polled.outcome, update_processing |-> None, updated_contents |-> <<>>]
        ELSE IF \E i \in DOMAIN outs : outs[i].name \in polled.rep_status
        THEN [outcome |-> "TypeError", update_processing |-> None, updated_contents |-> <<>>]
        ELSE [outcome |-> "returned",
              update_processing |->
                  IF polled.state = "OK" /\ finished > 0 /\ unfinished = 0
                  THEN "Finished" ELSE None,
              updated_contents |-> <<>>]

\* get_status_statistics: the loop body reads registered_input_output_maps['map_id'],
\* the literal string, which no map table has as a key: KeyError for a non-empty
\* table, the empty statistics for an empty one.
get_status_statistics(maps) ==
    IF Len(maps) > 0 THEN [outcome |-> "KeyError", keys |-> {}]
    ELSE [outcome |-> "returned", keys |-> {}]

\* syn_work_status: the new self.status.
syn_work_status(st, active, hni, maps) ==
    LET stats == get_status_statistics(maps)
        keys == stats.keys
    IN  IF stats.outcome # "returned" THEN [outcome |-> stats.outcome, status |-> st]
        ELSE [outcome |-> "returned",
              status |->
                IF active = <<>> /\ ~hni
                THEN IF "New" \in keys \/ "Processing" \in keys THEN st
                     ELSE IF Cardinality(keys) = 1
                          THEN IF "Available" \in keys THEN "Finished" ELSE "Failed"
                          ELSE "SubFinished"
                ELSE st]

NoOp == [name |-> "none", maps |-> <<>>, add |-> NoAdd, rule |-> NoRule, files |-> <<>>,
         outcome |-> "none", update_processing |-> None, updated_contents |-> <<>>,
         rule_id |-> None, new_keys |-> <<>>]

\* The primary input collection is closed by its owner.
CloseCollection ==
    /\ coll_status = "Open"
    /\ coll_status' = "Closed"
    /\ UNCHANGED <<rule_id_arg, has_lifetime, processings, active_processings,
                   has_new_inputs, work_status, rule_calls, op, dbvars, storevars, tickvars>>

\* The transform tick's step: get_new_input_output_maps(mapped_input_output_maps).
GetNewMapsOver(tables) ==
    /\ \E maps \in tables, files \in Listings :
         LET r == get_new_input_output_maps(maps, files, coll_status)
         IN  /\ has_new_inputs' = IF r.cleared THEN FALSE ELSE has_new_inputs
             /\ op' = [NoOp EXCEPT !.name = "get_new_input_output_maps", !.maps = maps,
                                    !.files = files, !.outcome = "returned",
                                    !.new_keys = r.new_keys]
    /\ UNCHANGED <<rule_id_arg, has_lifetime, coll_status, processings, active_processings,
                   work_status, rule_calls, dbvars, storevars, tickvars>>

GetNewMaps == GetNewMapsOver(TickTables)

MaxKey == 3

\* Registered map tables whose keys need not be 1..n: at most two entries under keys
\* up to MaxKey; an entry has one input, or a second one that is flagged primary.
KeyedEntries ==
    {[inputs |-> <<input_content(f)>>, outputs |-> <<[input_content(f) EXCEPT !.coll_id = OutputColl]>>]
        : f \in Files}
    \cup {[inputs |-> <<input_content(f), [input_content(g) EXCEPT !.primary = TRUE]>>,
           outputs |-> <<[input_content(f) EXCEPT !.coll_id = OutputColl]>>]
             : f \in Files, g \in Files}
KeyedTables ==
    UNION {[K -> KeyedEntries] : K \in {K \in SUBSET (1 .. MaxKey) : Cardinality(K) <= 2}}

\* One call of get_new_input_output_maps on such a table; what it returns is kept.
GetNewMapsKeyed ==
    /\ ret = NoCall
    /\ \E maps \in KeyedTables, files \in Listings :
         LET r == get_new_input_output_maps(maps, files, coll_status)
         IN  /\ has_new_inputs' = IF r.cleared THEN FALSE ELSE has_new_inputs
             /\ ret' = [name |-> "get_new_input_output_maps", maps |-> maps, files |-> files,
                        result |-> new_input_output_maps(r.new_keys)]
    /\ UNCHANGED <<rule_id_arg, has_lifetime, coll_status, processings, active_processings,
                   work_status, rule_calls, op, dbvars, messages, req2transform, wp2transform,
                   session, next_id, tickvars>>

\* The transform agent registers the returned entries: each under its key, its output
\* content New.
merge_maps(maps, new_keys) ==
    [k \in 1 .. Len(maps) + Len(new_keys) |->
        IF k <= Len(maps) THEN maps[k]
        ELSE MapEntry((CHOOSE e \in Range(new_keys) : e[1] = k)[2], <<"New", "New">>)]

GetNewNames == {"get_new_input_output_maps", "get_new_input_output_maps_again"}

\* A transform tick on the registered table: the table of the previous call with the
\* entries that call returned, and what list_files answers now.
GetNewMapsOn(listings, name) ==
    /\ LET maps == merge_maps(op.maps, op.new_keys)
       IN  \E files \in listings :
             LET r == get_new_input_output_maps(maps, files, coll_status)
             IN  /\ has_new_inputs' = IF r.cleared THEN FALSE ELSE has_new_inputs
                 /\ op' = [NoOp EXCEPT !.name = name, !.maps = maps, !.files = files,
                                        !.outcome = "returned", !.new_keys = r.new_keys]
    /\ UNCHANGED <<rule_id_arg, has_lifetime, coll_status, processings, active_processings,
                   work_status, rule_calls, dbvars, storevars, tickvars>>

GetNewMapsMerged == GetNewMapsOn(Listings, "get_new_input_output_maps")

\* The next tick while list_files returns the same files as in the previous one.
GetNewMapsAgain ==
    /\ op.name \in GetNewNames
    /\ GetNewMapsOn({op.files}, "get_new_input_output_maps_again")

\* The transform tick's step: create_processing when get_processing finds no active
\* processing and at least one output is mapped.
CreateProcessing ==
    /\ Len(processings) < MaxProcessings
    /\ get_processing(processings, active_processings) = 0
    /\ \E maps \in TickTables : Outputs(maps) # <<>>
    /\ op' = [NoOp EXCEPT !.name = "create_processing"]
    /\ processings' = add_processing_to_processings(processings, new_processing(rule_id_arg))
    /\ active_processings' = Append(active_processings, Len(processings) + 1)
    /\ rule_calls' = Append(rule_calls, 0)
    /\ UNCHANGED <<rule_id_arg, has_lifetime, coll_status, has_new_inputs, work_status, dbvars, storevars, tickvars>>

\* submit_processing, with the answer the DataService has ready.
SubmitProcessing ==
    /\ \E ds \in AddAnswers :
         IF active_processings = <<>>
         THEN /\ op' = [NoOp EXCEPT !.name = "submit_processing", !.add = ds, !.outcome = "returned"]
              /\ UNCHANGED <<processings, rule_calls>>
         ELSE LET id == active_processings[1]
                  r == submit_processing(processings[id], has_lifetime, ds)
              IN  /\ rule_calls[id] < MaxRuleCalls
                  /\ processings' = [processings EXCEPT ![id] = r.proc]
                  /\ rule_calls' = [rule_calls EXCEPT ![id] = IF r.called THEN @ + 1 ELSE @]
                  /\ op' = [NoOp EXCEPT !.name = "submit_processing", !.add = ds,
                                         !.outcome = r.outcome, !.rule_id = r.proc.rule_id]
    /\ UNCHANGED <<rule_id_arg, has_lifetime, coll_status, active_processings,
                   has_new_inputs, work_status, dbvars, storevars, tickvars>>

\* create_rule called on its own.
CreateRule ==
    /\ \E ds \in AddAnswers :
         LET r == create_rule(has_lifetime, ds)
         IN  op' = [NoOp EXCEPT !.name = "create_rule", !.add = ds,
                                !.outcome = r.outcome, !.rule_id = r.rule_id]
    /\ UNCHANGED <<rule_id_arg, has_lifetime, coll_status, processings, active_processings,
                   has_new_inputs, work_status, rule_calls, dbvars, storevars, tickvars>>

\* The processing tick's step: poll_processing_updates(input_output_maps).
PollOver(tables, answers) ==
    /\ active_processings # <<>>
    /\ \E maps \in tables, ds \in answers :
         LET r == poll_processing_updates(active_processings, maps, ds)
         IN  op' = [NoOp EXCEPT !.name = "poll_processing_updates", !.maps = maps, !.rule = ds,
                                !.outcome = r.outcome,
                                !.update_processing = r.update_processing,
                                !.updated_contents = r.updated_contents]
    /\ UNCHANGED <<rule_id_arg, has_lifetime, coll_status, processings, active_processings,
                   has_new_inputs, work_status, rule_calls, dbvars, storevars, tickvars>>

PollTick == PollOver(TickTables, TickAnswers)

PollProcessing == PollOver(MapTables, RuleAnswers)

\* The processing agent persists what the poll said: Finished on that update, Lost on
\* ProcessNotFound; a terminated processing is no longer active.
TerminateProcessing ==
    /\ op.name = "poll_processing_updates"
    /\ active_processings # <<>>
    /\ \/ op.outcome = "ProcessNotFound"
          /\ processings' = [processings EXCEPT ![active_processings[1]].status = "Lost"]
       \/ op.update_processing = "Finished"
          /\ processings' = [processings EXCEPT ![active_processings[1]].status = "Finished"]
    /\ active_processings' = Tail(active_processings)
    /\ op' = [op EXCEPT !.name = "terminate_processing"]
    /\ UNCHANGED <<rule_id_arg, has_lifetime, coll_status, has_new_inputs, work_status,
                   rule_calls, dbvars, storevars, tickvars>>

\* syn_work_status(registered_input_output_maps).
SynOver(tables) ==
    /\ \E maps \in tables :
         LET r == syn_work_status(work_status, active_processings, has_new_inputs, maps)
         IN  /\ work_status' = r.status
             /\ op' = [NoOp EXCEPT !.name = "syn_work_status", !.maps = maps,
                                    !.outcome = r.outcome]
    /\ UNCHANGED <<rule_id_arg, has_lifetime, coll_status, processings, active_processings,
                   has_new_inputs, rule_calls, dbvars, storevars, tickvars>>

DBNext ==
    \/ \E a \in Agents : Select(a)
    \/ \E a \in Agents : Mark(a)
    \/ \E a \in Agents : Release(a)
    \/ Reaper
    \/ Tick

SynTick == SynOver(TickTables)

SynWorkStatus == SynOver(MapTables)

WorkNext ==
    \/ CloseCollection
    \/ GetNewMaps
    \/ CreateProcessing
    \/ SubmitProcessing
    \/ CreateRule
    \/ PollTick
    \/ TerminateProcessing
    \/ SynTick

(***************************************************************************)
(* Part 3: sessions, the message outbox, the junction tables and the       *)
(* single-row operations of the repositories.                              *)
(***************************************************************************)
MaxMessages == 2
MaxSessionOps == 2

\* The writes of the repositories: update_transform / update_processing of a status,
\* and add_message.
StatusWrite(id, st) == [kind |-> "update", id |-> id, status |-> st]
MessageWrite(tid) == [kind |-> "message", id |-> tid, status |-> None]

\* add_message: one Message row carrying the transform_id it was given.
add_message(msgs, transform_id) == Append(msgs, [transform_id |-> transform_id])

\* transactional_session, session supplied: the body runs in the caller's session and
\* nothing is committed; otherwise the body's write is committed on return.
OpenSession == [open |-> TRUE, writes |-> <<>>]

RECURSIVE rows_after(_, _, _, _)
rows_after(tbl, tab, writes, t) ==
    IF writes = <<>> THEN tab
    ELSE rows_after(tbl,
                    IF Head(writes).kind = "update"
                    THEN update_row(tbl, tab, Head(writes).id,
                                    Params({"status"}, Head(writes).status, Idle, 0), t)
                    ELSE tab,
                    Tail(writes), t)

RECURSIVE messages_after(_, _)
messages_after(msgs, writes) ==
    IF writes = <<>> THEN msgs
    ELSE messages_after(IF Head(writes).kind = "message"
                        THEN add_message(msgs, Head(writes).id) ELSE msgs,
                        Tail(writes))

MessageCount(writes) == Cardinality({i \in DOMAIN writes : writes[i].kind = "message"})

\* One write, in the caller's session when it has one open, else in its own
\* transaction, committed on return.
Write(w) ==
    IF session.open
    THEN /\ Len(session.writes) < MaxSessionOps
         /\ session' = [session EXCEPT !.writes = Append(@, w)]
         /\ UNCHANGED <<rows, messages>>
    ELSE /\ rows' = rows_after(table, rows, <<w>>, now)
         /\ messages' = messages_after(messages, <<w>>)
         /\ UNCHANGED session

\* update_transform(id, {'status': st}) / update_processing(id, {'status': st}).
UpdateStatus ==
    /\ \E id \in RowIds, st \in ReleaseStatuses(table) : Write(StatusWrite(id, st))
    /\ UNCHANGED <<table, now, pc, batch, req2transform, wp2transform, next_id, ret, workvars, tickvars>>

\* add_message(..., transform_id, ...).
AddMessage ==
    /\ Len(messages) + (IF session.open THEN MessageCount(session.writes) ELSE 0) < MaxMessages
    /\ \E tid \in RowIds : Write(MessageWrite(tid))
    /\ UNCHANGED <<table, now, pc, batch, req2transform, wp2transform, next_id, ret, workvars, tickvars>>

\* A caller opens a session to pass to the operations it calls.
BeginSession ==
    /\ ~session.open
    /\ session' = OpenSession
    /\ UNCHANGED <<dbvars, messages, req2transform, wp2transform, next_id, ret, workvars, tickvars>>

\* The outermost owner returns: its writes are committed together.
Commit ==
    /\ session.open
    /\ rows' = rows_after(table, rows, session.writes, now)
    /\ messages' = messages_after(messages, session.writes)
    /\ session' = NoSession
    /\ UNCHANGED <<table, now, pc, batch, req2transform, wp2transform, next_id, ret, workvars, tickvars>>

\* The outermost owner raises: its writes are rolled back.
Rollback ==
    /\ session.open
    /\ session' = NoSession
    /\ UNCHANGED <<dbvars, messages, req2transform, wp2transform, next_id, ret, workvars, tickvars>>

OutboxNext ==
    \/ UpdateStatus
    \/ AddMessage
    \/ BeginSession
    \/ Commit
    \/ Rollback

MaxStored == 2

\* The arguments of add_processing: its defaults (granularity 0 and expired_at -1
\* stand for None), and another value for each.
DefaultArgs ==
    [transform_id |-> 1, status |-> "New", locking |-> Idle, submitter |-> None,
     granularity |-> 0, granularity_type |-> "File", expired_at |-> -1,
     processing_metadata |-> None, output_metadata |-> None]
OtherArgs ==
    [transform_id |-> 2, status |-> "Submitted", locking |-> Locking, submitter |-> "panda",
     granularity |-> 10, granularity_type |-> "Event", expired_at |-> 7,
     processing_metadata |-> "metadata", output_metadata |-> "output"]
ArgNames == DOMAIN DefaultArgs
ProcessingArgs ==
    {[f \in ArgNames |-> IF f \in S THEN OtherArgs[f] ELSE DefaultArgs[f]]
        : S \in {S \in SUBSET ArgNames : Cardinality(S) <= 2}}

\* create_processing: models.Processing(...) with the arguments as given and
\* substatus at its default, New.
create_processing(args, t) ==
    [transform_id |-> args.transform_id, status |-> args.status, substatus |-> "New",
     locking |-> args.locking, submitter |-> args.submitter,
     granularity |-> args.granularity, granularity_type |-> args.granularity_type,
     expired_at |-> args.expired_at, processing_metadata |-> args.processing_metadata,
     output_metadata |-> args.output_metadata,
     updated_at |-> t, next_poll_at |-> t, finished_at |-> -1]

\* The row's save(session): the row is stored as constructed, under the id the
\* table's sequence assigns.
save(tab, id, row) ==
    [r \in DOMAIN tab \cup {id} |-> IF r = id THEN row ELSE tab[r]]

\* add_processing that does not hand submitter and output_metadata on.
add_processing_defaults(tab, id, args, t) ==
    save(tab, id, create_processing([args EXCEPT !.submitter = None,
                                                 !.output_metadata = None], t))

\* add_processing: the new row saved under the next processing_id.
add_processing(tab, id, args, t) == save(tab, id, create_processing(args, t))

\* add_transform: the new row saved under the next transform_id.
add_transform(tab, id, prio) == save(tab, id, NewRow(prio))

\* What a call that hands back no row carries in its place.
NoRow == [status |-> None]

\* get_transform: query.first(); "if not ret: return None", else the row as a dict.
get_transform(tab, id) ==
    IF id \in DOMAIN tab
    THEN [outcome |-> "returned", found |-> TRUE, row |-> tab[id]]
    ELSE [outcome |-> "returned", found |-> FALSE, row |-> NoRow]

\* get_processing of the repository: the same.
orm_get_processing(tab, id) ==
    IF id \in DOMAIN tab
    THEN [outcome |-> "returned", found |-> TRUE, row |-> tab[id]]
    ELSE [outcome |-> "returned", found |-> FALSE, row |-> NoRow]

Call(name, id, r, args) ==
    [name |-> name, id |-> id, outcome |-> r.outcome, found |-> r.found, row |-> r.row,
     args |-> args]

AddProcessing ==
    /\ table = "Processing"
    /\ next_id <= MaxStored
    /\ \E args \in ProcessingArgs :
         /\ rows' = add_processing(rows, next_id, args, now)
         /\ ret' = Call("add_processing", next_id,
                        [outcome |-> "returned", found |-> FALSE, row |-> NoRow], args)
    /\ next_id' = next_id + 1
    /\ UNCHANGED <<table, now, pc, batch, messages, req2transform, wp2transform, session,
                   workvars, tickvars>>

GetProcessing ==
    /\ table = "Processing"
    /\ \E id \in 1 .. MaxStored + 1 :
         ret' = Call("get_processing", id, orm_get_processing(rows, id), DefaultArgs)
    /\ UNCHANGED <<dbvars, messages, req2transform, wp2transform, session, next_id, workvars, tickvars>>

GetTransform ==
    /\ table = "Transform"
    /\ \E id \in 1 .. MaxStored + 1 :
         ret' = Call("get_transform", id, get_transform(rows, id), DefaultArgs)
    /\ UNCHANGED <<dbvars, messages, req2transform, wp2transform, session, next_id, workvars, tickvars>>

\* What the schema does when a Transform row that a Workprogress2transform row
\* references is deleted: the models are not part of these sources.
ForeignKeys == {"unenforced", "restrict", "cascade"}

\* delete_transform: deletes the Req2transform rows of the transform, then its
\* Transform row; the Workprogress2transform table is not touched by the code.
delete_transform(tab, r2t, wp2t, id, fk) ==
    LET referenced == \E w \in wp2t : w[2] = id
    IN  IF id \in DOMAIN tab /\ referenced /\ fk = "restrict"
        THEN [outcome |-> "IntegrityError", rows |-> tab, req2transform |-> r2t,
              wp2transform |-> wp2t]
        ELSE [outcome |-> "returned",
              rows |-> [r \in DOMAIN tab \ {id} |-> tab[r]],
              req2transform |-> {x \in r2t : x[2] # id},
              wp2transform |-> IF id \in DOMAIN tab /\ fk = "cascade"
                               THEN {w \in wp2t : w[2] # id} ELSE wp2t]

\* add_transform(..., priority, workprogress_id): workprogress_id 0 stands for None.
AddTransform ==
    /\ table = "Transform"
    /\ next_id <= MaxStored
    /\ \E prio \in {0, 1}, workprogress_id \in {0, 1} :
         /\ rows' = add_transform(rows, next_id, prio)
         /\ wp2transform' = IF workprogress_id # 0
                             THEN wp2transform \cup {<<workprogress_id, next_id>>}
                             ELSE wp2transform
    /\ ret' = Call("add_transform", next_id,
                   [outcome |-> "returned", found |-> FALSE, row |-> NoRow], DefaultArgs)
    /\ next_id' = next_id + 1
    /\ UNCHANGED <<table, now, pc, batch, messages, req2transform, session, workvars, tickvars>>

\* add_req2transform(request_id, transform_id) / add_wp2transform(workprogress_id,
\* transform_id) for a transform of the table; a pair already there is a
\* DuplicatedObject and adds nothing.
AddJunction ==
    /\ table = "Transform"
    /\ \E tid \in DOMAIN rows, which \in {"req", "wp"} :
         IF which = "req"
         THEN /\ req2transform' = req2transform \cup {<<1, tid>>}
              /\ ret' = Call("add_req2transform", tid,
                             [outcome |-> IF <<1, tid>> \in req2transform
                                          THEN "DuplicatedObject" ELSE "returned",
                              found |-> FALSE, row |-> NoRow], DefaultArgs)
              /\ UNCHANGED wp2transform
         ELSE /\ wp2transform' = wp2transform \cup {<<1, tid>>}
              /\ ret' = Call("add_wp2transform", tid,
                             [outcome |-> IF <<1, tid>> \in wp2transform
                                          THEN "DuplicatedObject" ELSE "returned",
                              found |-> FALSE, row |-> NoRow], DefaultArgs)
              /\ UNCHANGED req2transform
    /\ UNCHANGED <<dbvars, messages, session, next_id, workvars, tickvars>>

DeleteTransform ==
    /\ table = "Transform"
    /\ \E id \in 1 .. MaxStored, fk \in ForeignKeys :
         LET r == delete_transform(rows, req2transform, wp2transform, id, fk)
         IN  /\ rows' = r.rows
             /\ req2transform' = r.req2transform
             /\ wp2transform' = r.wp2transform
             /\ ret' = Call("delete_transform", id,
                            [outcome |-> r.outcome, found |-> FALSE, row |-> NoRow],
                            DefaultArgs)
    /\ UNCHANGED <<table, now, pc, batch, messages, session, next_id, workvars, tickvars>>

RepoNext ==
    \/ AddProcessing
    \/ GetProcessing
    \/ AddTransform
    \/ GetTransform
    \/ AddJunction
    \/ DeleteTransform

\* clean_next_poll_at that resets next_poll_at to the epoch instead of the current time.
clean_next_poll_at_epoch(tab, status, t) ==
    [r \in DOMAIN tab |->
        IF tab[r].status \in status THEN [tab[r] EXCEPT !.next_poll_at = 0] ELSE tab[r]]

\* clean_next_poll_at that schedules the next poll one time unit ahead.
clean_next_poll_at_later(tab, status, t) ==
    [r \in DOMAIN tab |->
        IF tab[r].status \in status THEN [tab[r] EXCEPT !.next_poll_at = t + 1] ELSE tab[r]]

\* clean_next_poll_at(status): UPDATE ... SET next_poll_at = utcnow() WHERE status IN
\* (status); locking and the current next_poll_at are not looked at.
clean_next_poll_at(tab, status, t) ==
    [r \in DOMAIN tab |->
        IF tab[r].status \in status THEN [tab[r] EXCEPT !.next_poll_at = t] ELSE tab[r]]

CleanNextPollAt ==
    /\ \E status \in SUBSET DueStatuses(table) :
         /\ status # {}
         /\ rows' = clean_next_poll_at(rows, status, now)
    /\ rows' # rows
    /\ UNCHANGED <<table, now, pc, batch, workvars, storevars, tickvars>>

\* update_transform / update_processing of a row's locking and next_poll_at, by a
\* caller that schedules the next poll no earlier than the current time.
UpdatePolling ==
    /\ \E id \in RowIds, locking \in {Idle, Locking}, backoff \in {0, 1},
          keys \in {{"locking"}, {"next_poll_at"}, {"locking", "next_poll_at"}} :
         rows' = update_row(table, rows, id, Params(keys, None, locking, now + backoff), now)
    /\ UNCHANGED <<table, now, pc, batch, workvars, storevars, tickvars>>

PollAtNext ==
    \/ UpdatePolling
    \/ Reaper
    \/ CleanNextPollAt
    \/ Tick

\* The calls of get_transforms_by_status / get_processings_by_status: one status or
\* two, period and bulk_size None, 0 or a number, locking False or True, a submitter or
\* none.
Queries ==
    [status : {{"New"}, {"New", "Finished"}},
     period : {Unset, 0, 1}, locking : BOOLEAN, bulk_size : {Unset, 0, 1, 2},
     submitter : {None, "a"}]

\* One call; the selection is a read and leaves the table as it is.
SelectDue ==
    /\ ret = NoCall
    /\ \E q \in Queries :
         /\ table = "Transform" => q.submitter = None
         /\ \E res \in rows_by_status(table, rows, q, now) :
              ret' = [name |-> "get_by_status", q |-> q, result |-> res]
    /\ UNCHANGED <<dbvars, workvars, messages, req2transform, wp2transform, session, next_id,
                   tickvars>>

\* The time periods clean_locking is called with, its default among them.
TimePeriods == 0 .. TimePeriod + 1

\* One call of clean_locking(time_period).
CleanLocking ==
    /\ ret = NoCall
    /\ \E time_period \in TimePeriods :
         /\ rows' = clean_locking(rows, time_period, now)
         /\ ret' = [name |-> "clean_locking", time_period |-> time_period]
    /\ UNCHANGED <<table, now, pc, batch, workvars, messages, req2transform, wp2transform,
                   session, next_id, tickvars>>

\* One call of clean_next_poll_at(status), for one status or two.
CleanPoll ==
    /\ ret = NoCall
    /\ \E status \in {{"New"}, {"Finished"}, {"New", "Finished"}} :
         /\ rows' = clean_next_poll_at(rows, status, now)
         /\ ret' = [name |-> "clean_next_poll_at", status |-> status, at |-> now]
    /\ UNCHANGED <<table, now, pc, batch, workvars, messages, req2transform, wp2transform,
                   session, next_id, tickvars>>

\* The selections that may follow for the statuses just cleaned.
RepollQueries(status) ==
    [status : {status}, period : {Unset, 1}, locking : BOOLEAN, bulk_size : {Unset, 1},
     submitter : {None, "a"}]

\* A due-work selection for the statuses cleaned, by the next caller.
SelectAfter ==
    /\ ret.name = "clean_next_poll_at"
    /\ \E q \in RepollQueries(ret.status) :
         /\ table = "Transform" => q.submitter = None
         /\ \E res \in rows_by_status(table, rows, q, now) :
              ret' = [name |-> "get_by_status", q |-> q, result |-> res, at |-> ret.at]
    /\ UNCHANGED <<dbvars, workvars, messages, req2transform, wp2transform, session, next_id,
                   tickvars>>

RepollNext ==
    \/ CleanPoll
    \/ Tick
    \/ SelectAfter

\* Agent a1 stalls on the row it claimed while the reaper and agent a2 go on: a1
\* makes no new claim, it only releases, late, the one it holds.
LateNext ==
    \/ Release("a1")
    \/ Select("a2")
    \/ Mark("a2")
    \/ Release("a2")
    \/ Reaper
    \/ Tick

\* Time passes, without end.  Only the order of the timestamps matters to the
\* selection (updated_at against updated_at, next_poll_at against now), so the clock is
\* kept where it is and the timestamps move back instead: each updated_at to its rank
\* among those of the table, each next_poll_at by one, every past one to 0.
Elapse ==
    /\ rows' = [r \in RowIds |->
                  [rows[r] EXCEPT
                     !.updated_at = Cardinality({rows[s].updated_at : s \in RowIds}
                                                  \cap (0 .. @ - 1)),
                     !.next_poll_at = IF @ - 1 < now THEN 0 ELSE @ - 1]]
    /\ UNCHANGED <<table, now, pc, batch, workvars, storevars, tickvars>>

\* One agent ticks for ever: it selects, marks, releases, and selects again.
AgentsNext ==
    \/ Select("a1")
    \/ Mark("a1")
    \/ Release("a1")
    \/ Elapse

\* The agent goes on with its tick, and time goes on.
AgentsFair ==
    /\ WF_vars(Select("a1")) /\ WF_vars(Mark("a1")) /\ WF_vars(Release("a1"))
    /\ WF_vars(Elapse)

(***************************************************************************)
(* Part 4: one transform through its ticks.  The agents persist what the   *)
(* Work's operations return; the DataService keeps its rules and locks.    *)
(***************************************************************************)
\* get_replication_rule(rule_id) with list_replica_locks: the rule and its locks when
\* the DataService has a rule of that id, RuleNotFound when it has none.
get_replication_rule(svc, rule_id) ==
    IF rule_id \in svc.rules
    THEN [kind |-> "rule", state |-> svc.state,
          locks_ok_cnt |-> Cardinality({f \in Files : svc.locks[f] = "OK"}),
          locks |-> svc.locks]
    ELSE [kind |-> "RuleNotFound", state |-> None, locks_ok_cnt |-> 0,
          locks |-> [f \in Files |-> "REPLICATING"]]

\* The DataService accepts add_replication_rule and answers with the id R.
Accepted == [add |-> "ok", rule |-> "R", rule_list |-> <<>>, rules |-> <<>>]

\* The processing agent applies the substatus deltas of a poll to the contents.
apply_deltas(maps, deltas) ==
    [k \in DOMAIN maps |->
        [maps[k] EXCEPT !.outputs =
            [i \in DOMAIN maps[k].outputs |->
                IF \E d \in DOMAIN deltas : deltas[d].content_id = maps[k].outputs[i].content_id
                THEN [maps[k].outputs[i] EXCEPT
                        !.substatus = deltas[CHOOSE d \in DOMAIN deltas :
                                               deltas[d].content_id = @.content_id].substatus,
                        !.status = deltas[CHOOSE d \in DOMAIN deltas :
                                            deltas[d].content_id = @.content_id].substatus]
                ELSE maps[k].outputs[i]]]]

Terminated == {"Finished", "SubFinished", "Failed"}

\* Transform tick, mapping: get_new_input_output_maps on the registered table and the
\* files the DataService lists; the new entries are registered.
TickMaps ==
    /\ work_status \notin Terminated
    /\ LET r == get_new_input_output_maps(contents, service.files, coll_status)
       IN  /\ contents' = merge_maps(contents, r.new_keys)
           /\ has_new_inputs' = IF r.cleared THEN FALSE ELSE has_new_inputs
           /\ op' = [NoOp EXCEPT !.name = "get_new_input_output_maps", !.maps = contents,
                                  !.files = service.files, !.outcome = "returned",
                                  !.new_keys = r.new_keys]
    /\ UNCHANGED <<rule_id_arg, has_lifetime, coll_status, processings, active_processings,
                   work_status, rule_calls, service, dbvars, storevars>>

\* Transform tick, processing: create_processing when there is no active processing
\* and at least one mapped output.
TickCreate ==
    /\ work_status \notin Terminated
    /\ Len(processings) < MaxProcessings
    /\ get_processing(processings, active_processings) = 0
    /\ Outputs(contents) # <<>>
    /\ op' = [NoOp EXCEPT !.name = "create_processing"]
    /\ processings' = add_processing_to_processings(processings, new_processing(rule_id_arg))
    /\ active_processings' = Append(active_processings, Len(processings) + 1)
    /\ rule_calls' = Append(rule_calls, 0)
    /\ UNCHANGED <<rule_id_arg, has_lifetime, coll_status, has_new_inputs, work_status,
                   dbvars, storevars, tickvars>>

\* Transform tick, submission: submit_processing against a DataService that accepts.
TickSubmit ==
    /\ work_status \notin Terminated
    /\ active_processings # <<>>
    /\ LET id == active_processings[1]
           r == submit_processing(processings[id], has_lifetime, Accepted)
       IN  /\ rule_calls[id] < MaxRuleCalls
           /\ processings' = [processings EXCEPT ![id] = r.proc]
           /\ rule_calls' = [rule_calls EXCEPT ![id] = IF r.called THEN @ + 1 ELSE @]
           /\ service' = [service EXCEPT !.rules = IF r.called THEN @ \cup {"R"} ELSE @]
           /\ op' = [NoOp EXCEPT !.name = "submit_processing", !.add = Accepted,
                                  !.outcome = r.outcome, !.rule_id = r.proc.rule_id]
    /\ UNCHANGED <<rule_id_arg, has_lifetime, coll_status, active_processings,
                   has_new_inputs, work_status, contents, dbvars, storevars>>

\* Processing tick: poll_processing_updates on the registered table; the deltas are
\* applied, Finished is persisted, ProcessNotFound marks the processing Lost; any other
\* error leaves everything as it was.
TickPoll ==
    /\ active_processings # <<>>
    /\ LET id == active_processings[1]
           answer == get_replication_rule(service, processings[id].rule_id)
           r == poll_processing_updates(active_processings, contents, answer)
       IN  /\ op' = [NoOp EXCEPT !.name = "poll_processing_updates", !.maps = contents,
                                  !.rule = answer, !.outcome = r.outcome,
                                  !.update_processing = r.update_processing,
                                  !.updated_contents = r.updated_contents]
           /\ contents' = IF r.outcome = "returned"
                          THEN apply_deltas(contents, r.updated_contents) ELSE contents
           /\ processings' =
                 IF r.outcome = "ProcessNotFound"
                 THEN [processings EXCEPT ![id].status = "Lost"]
                 ELSE IF r.update_processing = "Finished"
                      THEN [processings EXCEPT ![id].status = "Finished"]
                      ELSE processings
           /\ active_processings' =
                 IF r.outcome = "ProcessNotFound" \/ r.update_processing = "Finished"
                 THEN Tail(active_processings) ELSE active_processings
    /\ UNCHANGED <<rule_id_arg, has_lifetime, coll_status, has_new_inputs, work_status,
                   rule_calls, service, dbvars, storevars>>

\* Transform tick, rollup: syn_work_status on the registered table.
TickSyn ==
    /\ work_status \notin Terminated
    /\ LET r == syn_work_status(work_status, active_processings, has_new_inputs, contents)
       IN  /\ work_status' = r.status
           /\ op' = [NoOp EXCEPT !.name = "syn_work_status", !.maps = contents,
                                  !.outcome = r.outcome]
    /\ UNCHANGED <<rule_id_arg, has_lifetime, coll_status, processings, active_processings,
                   has_new_inputs, rule_calls, dbvars, storevars, tickvars>>

\* The DataService replicates: a lock that is not stuck becomes OK, and the rule
\* becomes OK once every lock that can is.
ServiceProgress ==
    /\ service.rules # {}
    /\ LET moving == Range(service.files) \ service.stuck
       IN  \/ \E f \in moving :
                /\ service.locks[f] = "REPLICATING"
                /\ service' = [service EXCEPT !.locks[f] = "OK"]
           \/ /\ \A f \in moving : service.locks[f] = "OK"
              /\ service.state = "REPLICATING"
              /\ service' = [service EXCEPT !.state = "OK"]
    /\ UNCHANGED <<contents, dbvars, workvars, storevars>>

TicksNext ==
    \/ TickMaps
    \/ TickCreate
    \/ TickSubmit
    \/ TickPoll
    \/ TickSyn
    \/ ServiceProgress

\* The repositories under concurrent agents; the Work object is left as constructed.
InitDB ==
    /\ DBInit
    /\ WorkIdle /\ rule_id_arg = None /\ has_lifetime = FALSE /\ op = NoOp

SpecDB == InitDB /\ [][DBNext]_vars

\* The stage-in Work under any sequence of calls; the repositories are left alone.
InitWork ==
    /\ WorkInit /\ op = NoOp
    /\ DBInit /\ table = "Transform"

SpecWork == InitWork /\ [][WorkNext]_vars

\* poll_processing_updates as a function of its arguments: one submitted processing
\* is active, and every map table and rule answer is tried.
InitPoll ==
    /\ DBInit /\ table = "Processing"
    /\ rule_id_arg = None /\ has_lifetime = FALSE
    /\ coll_status = "Closed"
    /\ processings = <<new_processing("R")>>
    /\ active_processings = <<1>>
    /\ has_new_inputs = FALSE
    /\ work_status = "New"
    /\ rule_calls = <<0>>
    /\ op = NoOp

SpecPoll == InitPoll /\ [][PollProcessing]_vars

\* syn_work_status as a function of its arguments and of the Work's state.
InitSyn ==
    /\ DBInit /\ table = "Transform"
    /\ rule_id_arg = None /\ has_lifetime = FALSE
    /\ coll_status = "Closed"
    /\ \E n \in 0 .. 1 :
         /\ processings = [i \in 1 .. n |-> new_processing("R")]
         /\ active_processings = [i \in 1 .. n |-> i]
         /\ rule_calls = [i \in 1 .. n |-> 0]
    /\ has_new_inputs \in BOOLEAN
    /\ work_status \in {"New", "Transforming"}
    /\ op = NoOp

SpecSyn == InitSyn /\ [][SynWorkStatus]_vars

\* get_new_input_output_maps over successive ticks of one transform, whose map table
\* grows by what each call returned.
InitMaps ==
    /\ WorkIdle /\ rule_id_arg = None /\ has_lifetime = FALSE /\ op = NoOp
    /\ DBInit /\ table = "Transform"

MapsNext ==
    \/ CloseCollection
    \/ GetNewMapsMerged
    \/ GetNewMapsAgain

SpecMaps == InitMaps /\ [][MapsNext]_vars

\* get_new_input_output_maps as a function of the registered table, the listing and
\* the collection's status.
InitKeys ==
    /\ DBInit /\ table = "Transform"
    /\ rule_id_arg = None /\ has_lifetime = FALSE /\ op = NoOp
    /\ coll_status \in {"Open", "Closed"}
    /\ processings = <<>> /\ active_processings = <<>> /\ rule_calls = <<>>
    /\ has_new_inputs = TRUE
    /\ work_status = "New"

SpecKeys == InitKeys /\ [][GetNewMapsKeyed]_vars

\* Status updates and message inserts, each in its own transaction or together in a
\* caller's session.
InitOutbox == InitDB

SpecOutbox == InitOutbox /\ [][OutboxNext]_vars

\* The operations that write locking and next_poll_at, over rows of both due statuses.
InitPollAt ==
    /\ StoreIdle
    /\ TicksIdle
    /\ table \in Tables
    /\ rows = [r \in RowIds |->
                 [NewRow(0) EXCEPT !.status = IF r % 2 = 1 THEN "New"
                                               ELSE CHOOSE st \in DueStatuses(table) : st # "New"]]
    /\ now = 1
    /\ pc = [a \in Agents |-> "idle"]
    /\ batch = [a \in Agents |-> <<>>]
    /\ WorkIdle /\ rule_id_arg = None /\ has_lifetime = FALSE /\ op = NoOp

SpecPollAt == InitPollAt /\ [][PollAtNext]_vars

\* One stage-in transform whose primary collection is Closed and lists one or two
\* files, created with or without a rule id, ticked by both agents for ever.
InitTicks ==
    /\ StoreIdle
    /\ table = "Transform"
    /\ rows = [r \in RowIds |-> NewRow(r % 2)]
    /\ now = 1
    /\ pc = [a \in Agents |-> "idle"]
    /\ batch = [a \in Agents |-> <<>>]
    /\ rule_id_arg \in {None, "R9"}
    /\ has_lifetime \in BOOLEAN
    /\ coll_status = "Closed"
    /\ processings = <<>> /\ active_processings = <<>> /\ rule_calls = <<>>
    /\ has_new_inputs = TRUE
    /\ work_status = "New"
    /\ op = NoOp
    /\ contents = <<>>
    /\ \E l \in {l \in Listings : l # <<>> /\ Cardinality(Range(l)) = Len(l)} :
         \E s \in {{}} \cup {{f} : f \in {f \in Range(l) : Len(l) > 1}} :
            service = [NoService EXCEPT
                          !.files = l, !.stuck = s,
                          !.rules = IF rule_id_arg = None THEN {} ELSE {rule_id_arg}]

TicksFair ==
    /\ WF_vars(TickMaps) /\ WF_vars(TickCreate) /\ WF_vars(TickSubmit)
    /\ WF_vars(TickPoll) /\ WF_vars(TickSyn) /\ WF_vars(ServiceProgress)

SpecTicks == InitTicks /\ [][TicksNext]_vars /\ TicksFair

\* The due-work selection as a function of the table and of its arguments: rows of
\* every status, locking and age, polled at time 2.
InitSelect ==
    /\ StoreIdle
    /\ TicksIdle
    /\ table \in Tables
    /\ \E tab \in [RowIds -> [status : {"New", "Finished"}, locking : {Idle, Locking},
                               updated_at : 0 .. 2, next_poll_at : 1 .. 2]] :
          rows = [r \in RowIds |->
                    [status |-> tab[r].status, locking |-> tab[r].locking, priority |-> r % 2,
                     updated_at |-> tab[r].updated_at, next_poll_at |-> tab[r].next_poll_at,
                     finished_at |-> -1, submitter |-> IF r = 1 THEN "a" ELSE "b"]]
    /\ now = 2
    /\ pc = [a \in Agents |-> "idle"]
    /\ batch = [a \in Agents |-> <<>>]
    /\ WorkIdle /\ rule_id_arg = None /\ has_lifetime = FALSE /\ op = NoOp

SpecSelect == InitSelect /\ [][SelectDue]_vars

\* The reaper as a function of the table and of its time period.
SpecReap == InitSelect /\ [][CleanLocking]_vars

\* Rows of every status, locking and age whose next poll lies in the future, then
\* clean_next_poll_at, the passing of time and a selection.
InitRepoll ==
    /\ StoreIdle
    /\ TicksIdle
    /\ table \in Tables
    /\ \E tab \in [RowIds -> [status : {"New", "Finished"}, locking : {Idle, Locking},
                               updated_at : {0, 2}]] :
          rows = [r \in RowIds |->
                    [status |-> tab[r].status, locking |-> tab[r].locking, priority |-> r % 2,
                     updated_at |-> tab[r].updated_at, next_poll_at |-> MaxTime + 1,
                     finished_at |-> -1, submitter |-> IF r = 1 THEN "a" ELSE "b"]]
    /\ now = 2
    /\ pc = [a \in Agents |-> "idle"]
    /\ batch = [a \in Agents |-> <<>>]
    /\ WorkIdle /\ rule_id_arg = None /\ has_lifetime = FALSE /\ op = NoOp

SpecRepoll == InitRepoll /\ [][RepollNext]_vars

\* Agent a1 marked row 1 Locked at time 0 and is still working on it at time 1.
InitLate ==
    /\ StoreIdle
    /\ TicksIdle
    /\ table \in Tables
    /\ rows = [r \in RowIds |->
                 IF r = 1 THEN [NewRow(1) EXCEPT !.locking = Locking] ELSE NewRow(r % 2)]
    /\ now = 1
    /\ pc = [a \in Agents |-> IF a = "a1" THEN "working" ELSE "idle"]
    /\ batch = [a \in Agents |-> IF a = "a1" THEN <<1>> ELSE <<>>]
    /\ WorkIdle /\ rule_id_arg = None /\ has_lifetime = FALSE /\ op = NoOp

SpecLate == InitLate /\ [][LateNext]_vars

\* New rows of either priority, polled by an agent without end.
InitAgents ==
    /\ StoreIdle
    /\ TicksIdle
    /\ table \in Tables
    /\ rows = [r \in RowIds |-> NewRow(r % 2)]
    /\ now = NumRows + 1
    /\ pc = [a \in Agents |-> "idle"]
    /\ batch = [a \in Agents |-> <<>>]
    /\ WorkIdle /\ rule_id_arg = None /\ has_lifetime = FALSE /\ op = NoOp

SpecAgents == InitAgents /\ [][AgentsNext]_vars /\ AgentsFair

\* The single-row operations on a table that starts empty.
InitRepo ==
    /\ table \in Tables
    /\ rows = <<>>
    /\ now = 1
    /\ pc = [a \in Agents |-> "idle"]
    /\ batch = [a \in Agents |-> <<>>]
    /\ messages = <<>> /\ req2transform = {} /\ wp2transform = {}
    /\ session = NoSession /\ next_id = 1 /\ ret = NoCall
    /\ TicksIdle
    /\ WorkIdle /\ rule_id_arg = None /\ has_lifetime = FALSE /\ op = NoOp

SpecRepo == InitRepo /\ [][RepoNext]_vars

(***************************************************************************)
(* The properties.                                                         *)
(***************************************************************************)

\* The agents that hold the claim on row r: they were handed it and are working on it.
Holders(r) == {a \in Agents : pc[a] = "working" /\ r \in Range(batch[a])}

Stale(r) == rows[r].locking = Locking /\ rows[r].updated_at < now - TimePeriod

\* C1: at every moment at most one agent holds the claim on a row, unless the row is
\* Locked with updated_at older than time_period (the stale-lock window).
C1_OneHolderPerRow ==
    \A r \in RowIds : Cardinality(Holders(r)) <= 1 \/ Stale(r)

\* C2: two agents that have both run the due-work selection with locking=True, neither
\* having finished its claim yet, were handed disjoint sets of rows.
C2_DisjointBatches ==
    \A a, b \in Agents :
        (a # b /\ pc[a] = "selected" /\ pc[b] = "selected")
            => Range(batch[a]) \cap Range(batch[b]) = {}

AllAvailable(maps) ==
    \A i \in DOMAIN Outputs(maps) : Outputs(maps)[i].status = "Available"

\* C3: after syn_work_status ran with no active processing and has_new_inputs false,
\* the Work's status is Finished exactly when every output content of the maps it was
\* given (none, when there are no outputs) has status Available.
C3_FinishedIffAllAvailable ==
    (op.name = "syn_work_status" /\ active_processings = <<>> /\ ~has_new_inputs)
        => (work_status = "Finished" <=> AllAvailable(op.maps))

\* The substatus the polled map table holds for a content id.
SubstatusIn(maps, cid) ==
    LET outs == Outputs(maps)
    IN  outs[CHOOSE i \in DOMAIN outs : outs[i].content_id = cid].substatus

TerminalContent == {"Available", "Failed", "Lost"}

\* C4: every delta poll_processing_updates emits sets a substatus of Available on a
\* content that was not yet Available, Failed or Lost: no content regresses and no
\* terminal content is changed.
C4_NoRegression ==
    op.name = "poll_processing_updates" =>
        \A i \in DOMAIN op.updated_contents :
            /\ op.updated_contents[i].substatus = "Available"
            /\ SubstatusIn(op.maps, op.updated_contents[i].content_id) \notin TerminalContent

\* C4's case: a content already Failed or Lost whose replica lock the rule reports OK
\* has been polled.
C4_Witness ==
    /\ op.name = "poll_processing_updates"
    /\ op.rule.kind = "rule" /\ op.rule.locks_ok_cnt > 0
    /\ \E i \in DOMAIN Outputs(op.maps) :
          /\ Outputs(op.maps)[i].substatus \in {"Failed", "Lost"}
          /\ op.rule.locks[Outputs(op.maps)[i].name] = "OK"

\* C5: a Work has at most one active processing, and every active processing is one
\* of its processings.
C5_OneActiveProcessing ==
    /\ Len(active_processings) <= 1
    /\ \A i \in DOMAIN active_processings : active_processings[i] \in DOMAIN processings

\* C5's case: a second processing was created after the first one terminated.
C5_Witness ==
    /\ Len(processings) >= 2
    /\ Len(active_processings) = 1
    /\ processings[1].status \in {"Lost", "Finished"}

\* C6: once a processing's rule_id is a rule id, no step changes it or calls
\* add_replication_rule for it, and no processing has more than one such call.
C6_SubmitIdempotent ==
    [][/\ \A i \in DOMAIN processings :
            processings[i].rule_id # None =>
                /\ processings'[i].rule_id = processings[i].rule_id
                /\ rule_calls'[i] = rule_calls[i]
       /\ \A i \in DOMAIN rule_calls' : rule_calls'[i] <= 1]_vars

\* C6's case: submit_processing has run on an active processing whose rule_id is set.
C6_Witness ==
    /\ op.name = "submit_processing"
    /\ active_processings # <<>>
    /\ processings[active_processings[1]].rule_id # None

\* C7: after submit_processing has run on a processing created with rule_id None while
\* the DataService accepts the rule and returns R (or a list starting with R), the
\* active processing's rule_id is R.
C7_RuleIdMaterialized ==
    (/\ op.name = "submit_processing"
     /\ active_processings # <<>>
     /\ rule_id_arg = None
     /\ op.add.add \in {"ok", "list"})
        => processings[active_processings[1]].rule_id = ReturnedRule(op.add)

\* C8: when add_replication_rule answers DuplicateRule, create_rule returns the id of
\* the first listed rule of this account and destination (and nothing else), and
\* submit_processing makes it the rule_id of a processing created without one.
C8_DuplicateRuleAdopted ==
    /\ (op.name = "create_rule" /\ op.add.add = "DuplicateRule")
          => (op.outcome = "returned" /\ op.rule_id = first_matching_rule(op.add.rules))
    /\ (/\ op.name = "submit_processing"
        /\ active_processings # <<>>
        /\ rule_id_arg = None
        /\ op.add.add = "DuplicateRule")
          => processings[active_processings[1]].rule_id = first_matching_rule(op.add.rules)

\* C9: a poll whose rule is not found fails with ProcessNotFound without delta or
\* update; and once a processing is Lost, none is active or Finished, no new input is
\* pending and every output is Failed, syn_work_status leaves the Work Failed.
C9_RuleLostFailsTransform ==
    /\ (op.name = "poll_processing_updates" /\ op.rule.kind = "RuleNotFound")
          => /\ op.outcome = "ProcessNotFound"
             /\ op.updated_contents = <<>>
             /\ op.update_processing = None
    /\ (/\ op.name = "syn_work_status"
        /\ active_processings = <<>>
        /\ ~has_new_inputs
        /\ \E i \in DOMAIN processings : processings[i].status = "Lost"
        /\ \A i \in DOMAIN processings : processings[i].status # "Finished"
        /\ Outputs(op.maps) # <<>>
        /\ \A i \in DOMAIN Outputs(op.maps) : Outputs(op.maps)[i].status = "Failed")
          => work_status = "Failed"

\* The substatus of each output once this poll's deltas are applied.
SubstatusAfter(maps, deltas) ==
    LET outs == Outputs(maps)
    IN  [i \in DOMAIN outs |->
            IF \E d \in DOMAIN deltas : deltas[d].content_id = outs[i].content_id
            THEN deltas[CHOOSE d \in DOMAIN deltas : deltas[d].content_id = outs[i].content_id].substatus
            ELSE outs[i].substatus]

\* C10: poll_processing_updates emits the Finished update exactly when the rule state
\* is OK, some output is Available and none is not, counted after this poll's deltas.
C10_FinishedIffAllDone ==
    (op.name = "poll_processing_updates" /\ op.rule.kind = "rule") =>
        LET after == SubstatusAfter(op.maps, op.updated_contents)
        IN  op.update_processing = "Finished"
              <=> /\ op.rule.state = "OK"
                  /\ \E i \in DOMAIN after : after[i] = "Available"
                  /\ \A i \in DOMAIN after : after[i] = "Available"

\* C11: a call of get_new_input_output_maps on the table that holds the entries the
\* previous call returned, while list_files answers the same files, returns no entry.
C11_IdempotentOnUnchangedInputs ==
    op.name = "get_new_input_output_maps_again" => op.new_keys = <<>>

\* C11's case: the previous call returned entries for a non-empty listing, they were
\* registered, and the call was repeated on the same listing.
C11_Witness ==
    /\ op.name = "get_new_input_output_maps_again"
    /\ op.files # <<>>
    /\ Len(op.maps) >= 2
    /\ coll_status = "Open"

\* No listed file is unmapped: each is the primary input of an entry of the table.
NoUnmapped(maps, files) ==
    \A i \in DOMAIN files : \E k \in DOMAIN maps : get_mapped_inputs(maps)[k].name = files[i]

\* C12: has_new_inputs is True while the collection is not Closed; a call made while
\* the collection is Closed that finds no unmapped file sets it to False, and nothing
\* else does: a call that finds an unmapped file leaves it as it was.
C12_HasNewInputsCleared ==
    [][/\ coll_status' # "Closed" => has_new_inputs'
       /\ (has_new_inputs /\ ~has_new_inputs')
             => /\ op'.name \in GetNewNames
                /\ coll_status = "Closed"
                /\ NoUnmapped(op'.maps, op'.files)
       /\ (op'.name \in GetNewNames /\ coll_status = "Closed"
              /\ NoUnmapped(op'.maps, op'.files))
             => ~has_new_inputs'
       /\ (op'.name \in GetNewNames /\ ~NoUnmapped(op'.maps, op'.files))
             => has_new_inputs' = has_new_inputs]_vars

\* C12's case: calls found files while the collection was Open, and a call after it
\* was Closed found none and cleared has_new_inputs.
C12_Witness ==
    /\ op.name \in GetNewNames
    /\ coll_status = "Closed"
    /\ Len(op.maps) >= 2
    /\ op.files # <<>>
    /\ ~has_new_inputs

\* The Message rows a step commits.
NewMessages == {messages'[i] : i \in Len(messages) + 1 .. Len(messages')}

\* C13: a step commits a change of a row's status exactly when it commits a Message
\* row with that row's transform_id (a Processing row r is the processing of transform
\* r): no committed transition without its message, no message without a committed
\* transition, none from a rolled-back session.
C13_MessageIffTransition ==
    [][/\ \A r \in RowIds :
            rows'[r].status # rows[r].status
                => \E m \in NewMessages : m.transform_id = r
       /\ \A m \in NewMessages :
            rows'[m.transform_id].status # rows[m.transform_id].status]_vars

C18_MissingRowRaisesNoObject ==
    [][(ret'.name \in {"get_processing", "get_transform"} /\ ret'.id \notin DOMAIN rows)
          => /\ ret'.outcome = "NoObject"
             /\ UNCHANGED <<rows, messages, req2transform, wp2transform>>]_vars

\* C19: no Req2transform or Workprogress2transform row references the transform_id
\* of a Transform row that has been deleted.
C19_NoDanglingJunctionRow ==
    \A x \in req2transform \cup wp2transform :
        ~(x[2] < next_id /\ x[2] \notin DOMAIN rows)

\* C15 as stated: no step lowers the next_poll_at of a row whose locking is Idle.
C15_NextPollAtMonotone ==
    [][\A r \in RowIds :
          rows[r].locking = Idle => rows'[r].next_poll_at >= rows[r].next_poll_at]_vars

\* C15, amended: no step takes the next_poll_at of a row whose locking is Idle below
\* both its previous value and the current time.
C15_NextPollAtNotBelowNow ==
    [][\A r \in RowIds :
          rows[r].locking = Idle
              => rows'[r].next_poll_at >= Min(rows[r].next_poll_at, now)]_vars

\* C15's case: clean_next_poll_at has reset the next_poll_at of an Idle row that no
\* update has touched for more than a time unit.
C15_Witness ==
    \E r \in RowIds :
        /\ rows[r].locking = Idle
        /\ rows[r].next_poll_at = now
        /\ rows[r].updated_at < now - 1

\* The poll has been answered with the rule in state OK and with the locks of the
\* files in S in state OK, the others not.
Reported(S) ==
    /\ op.name = "poll_processing_updates"
    /\ op.rule.kind = "rule" /\ op.rule.state = "OK"
    /\ \A f \in Range(service.files) : (op.rule.locks[f] = "OK") <=> (f \in S)

ContentsIn(S, st) ==
    \A i \in DOMAIN Outputs(contents) :
        Outputs(contents)[i].name \in S => Outputs(contents)[i].status = st

\* C16: if the DataService keeps reporting the rule in state OK with every lock OK,
\* then eventually every output content is Available, a processing is Finished and
\* the transform is Finished.
C16_HappyPathLiveness ==
    []<>Reported(Range(service.files))
        => <>(/\ Outputs(contents) # <<>>
              /\ ContentsIn(Files, "Available")
              /\ \E i \in DOMAIN processings : processings[i].status = "Finished"
              /\ work_status = "Finished")

\* C17: if the DataService keeps reporting the rule in state OK with every lock OK
\* but that of one file, then eventually the contents of the other files are
\* Available, that of the one file is Failed and the transform is SubFinished.
C17_PartialSuccessTermination ==
    (service.stuck # {} /\ []<>Reported(Range(service.files) \ service.stuck))
        => <>(/\ Outputs(contents) # <<>>
              /\ ContentsIn(Files \ service.stuck, "Available")
              /\ ContentsIn(service.stuck, "Failed")
              /\ work_status = "SubFinished")

\* The selection predicate as the claim words it, the period clause applying when
\* given_period says a period is given.
Selected(row, q, given_period) ==
    /\ row.status \in q.status
    /\ row.next_poll_at < now
    /\ (q.locking => row.locking = Idle)
    /\ (given_period => row.updated_at < now - q.period)

\* The result holds only rows of the predicate, each once, at most bulk_size of them
\* when a bulk_size is given, and every row of the predicate (restricted to the
\* rows Wanted) when the limit did not cut it.
SelectionIs(given_period, given_bulk, Wanted) ==
    LET q == ret.q
        res == ret.result
    IN  /\ \A i \in DOMAIN res : Selected(rows[res[i]], q, given_period)
        /\ \A i, j \in DOMAIN res : i # j => res[i] # res[j]
        /\ (given_bulk => Len(res) <= q.bulk_size)
        /\ (~given_bulk \/ Len(res) < q.bulk_size)
              => \A r \in Wanted : Selected(rows[r], q, given_period) => r \in Range(res)

\* C20 as stated: the selection returns only rows that satisfy the predicate, the
\* period clause applying whenever a period is given; at most bulk_size rows; and
\* every satisfying row when it returns fewer than bulk_size or bulk_size is unset.
C20_SelectionPredicate ==
    ret.name = "get_by_status"
        => SelectionIs(ret.q.period # Unset, ret.q.bulk_size # Unset, RowIds)

\* C20, amended: the same, a period or a bulk_size of 0 counting as not given, and
\* "every satisfying row" meaning every satisfying row of the requested submitter
\* when a processing selection names one.
C20_SelectionPredicateNonZero ==
    ret.name = "get_by_status"
        => SelectionIs(ret.q.period \notin {Unset, 0}, ret.q.bulk_size \notin {Unset, 0},
                       {r \in RowIds : ret.q.submitter # None => rows[r].submitter = ret.q.submitter})

\* C20's case: a selection with a period and a bulk_size left out a row that
\* satisfies the predicate, because of the limit.
C20_Witness ==
    /\ ret.name = "get_by_status"
    /\ ret.q.period = 1 /\ ret.q.locking /\ ret.q.submitter = None
    /\ Len(ret.result) = ret.q.bulk_size
    /\ \E r \in RowIds : r \notin Range(ret.result) /\ Selected(rows[r], ret.q, TRUE)


\* C21: clean_locking(time_period) sets locking to Idle for exactly the rows that are
\* Locked with updated_at older than now minus time_period; every other row keeps its
\* locking, and no row's status or next_poll_at changes.
C21_CleanLockingFrame ==
    [][ret'.name = "clean_locking" =>
          \A r \in RowIds :
             /\ rows'[r].locking =
                   IF rows[r].locking = Locking /\ rows[r].updated_at < now - ret'.time_period
                   THEN Idle ELSE rows[r].locking
             /\ rows'[r].status = rows[r].status
             /\ rows'[r].next_poll_at = rows[r].next_poll_at]_vars

\* C21's case: one call has reset a stale Locked row and left a Locked row that was
\* updated more recently Locked.
C21_Witness ==
    /\ ret.name = "clean_locking"
    /\ ret.time_period = 1
    /\ \E r, s \in RowIds :
          /\ rows[r].locking = Idle /\ rows[r].updated_at = 0 /\ rows[r].status = "Finished"
          /\ rows[s].locking = Locking /\ rows[s].updated_at >= 1


\* The rows the last selection's WHERE clause admits.
DueRows == {r \in RowIds : IsDue(rows[r], ret.q, now)}

\* Row r comes no later than row s in the order the claim words: smaller updated_at
\* first; among transforms of equal updated_at, higher priority first.
NoLater(r, s) ==
    \/ rows[r].updated_at < rows[s].updated_at
    \/ /\ rows[r].updated_at = rows[s].updated_at
       /\ (table = "Transform" => rows[r].priority >= rows[s].priority)

RollupOf(st, active, hni, maps) ==
    LET outs == Outputs(maps)
        S == {outs[i].status : i \in DOMAIN outs}
    IN  IF active # <<>> \/ hni \/ S \cap {"New", "Processing"} # {} THEN {st}
        ELSE IF S = {"Available"} THEN {"Finished"}
        ELSE IF S # {} /\ S \subseteq TerminalContent \ {"Available"} THEN {"Failed"}
        ELSE IF "Available" \in S /\ S \subseteq TerminalContent /\ S # {"Available"}
             THEN {"SubFinished"}
        ELSE {st, "Finished", "Failed", "SubFinished"}

\* C23: syn_work_status leaves the Work's status unchanged when a processing is active,
\* has_new_inputs is true or an output content is New or Processing; otherwise it sets
\* Finished when all outputs are Available, Failed when none is and all are terminal,
\* SubFinished when Available and other terminal contents are mixed.
C23_RollupByDistribution ==
    [][op'.name = "syn_work_status"
          => work_status' \in RollupOf(work_status, active_processings, has_new_inputs,
                                       op'.maps)]_vars


\* The keys the claim puts in the rule-poll status map: the replica locks in state OK,
\* none when locks_ok_cnt is 0.
OkKeys(rule) == IF rule.locks_ok_cnt = 0 THEN {} ELSE {f \in Files : rule.locks[f] = "OK"}

\* C24: for a rule that is found, the status map of poll_rule holds exactly the keys of
\* the locks in state OK, and poll_processing_updates returns with exactly one delta
\* {content_id, Available} for each output whose key is in the map and whose substatus
\* differs, and no other delta.  (The finished and unfinished counts are locals of the
\* call, seen only through the Finished update.)
C24_ReconciliationDeltas ==
    (op.name = "poll_processing_updates" /\ op.rule.kind = "rule") =>
        LET outs == Outputs(op.maps)
            deltas == op.updated_contents
        IN  /\ poll_rule(active_processings, op.rule).rep_status = OkKeys(op.rule)
            /\ op.outcome = "returned"
            /\ \A d \in DOMAIN deltas : deltas[d].substatus = "Available"
            /\ \A i \in DOMAIN outs :
                  Cardinality({d \in DOMAIN deltas : deltas[d].content_id = outs[i].content_id})
                      = IF outs[i].name \in OkKeys(op.rule) /\ outs[i].substatus # "Available"
                        THEN 1 ELSE 0


\* The files of the last call's listing that are the primary input of no entry of its
\* table, in listing order.
Discovered ==
    LET mapped == {primary_of(ret.maps[k].inputs, ret.maps[k].inputs[1]).name : k \in DOMAIN ret.maps}
    IN  SelectSeq(ret.files, LAMBDA f : f \notin mapped)

\* C25: the keys of the entries get_new_input_output_maps returns are consecutive from
\* max(existing keys) + 1 (from 1 for an empty table), in discovery order, and collide
\* with no existing key; each entry has one input, the discovered file, and one output
\* equal to it but for coll_id, which is that of the first output collection.
C25_KeyAllocation ==
    ret.name = "get_new_input_output_maps" =>
        LET base == IF DOMAIN ret.maps = {} THEN 0 ELSE max(DOMAIN ret.maps)
            res == ret.result
        IN  /\ DOMAIN res \cap DOMAIN ret.maps = {}
            /\ \/ DOMAIN res = base + 1 .. base + Len(Discovered)
               \/ DOMAIN res = {} /\ coll_status = "Closed" /\ Discovered = <<>>
            /\ \A i \in 1 .. Len(Discovered) :
                  base + i \in DOMAIN res =>
                     LET e == res[base + i]
                     IN  /\ Len(e.inputs) = 1 /\ Len(e.outputs) = 1
                         /\ e.inputs[1].name = Discovered[i]
                         /\ e.inputs[1].coll_id = InputColl
                         /\ e.outputs[1] = [e.inputs[1] EXCEPT !.coll_id = OutputColl]

\* C25's case: two files were discovered against a table whose keys are not 1..n.
C25_Witness ==
    /\ ret.name = "get_new_input_output_maps"
    /\ DOMAIN ret.maps = {1, 3}
    /\ DOMAIN ret.result = {4, 5}
    /\ ret.result[4].inputs[1].name = "f2"


\* add_replication_rule failed with an error other than DuplicateRule, or with
\* DuplicateRule while no listed rule is of this account and destination.
CreationFailed(ds) ==
    \/ ds.add = "error"
    \/ ds.add = "DuplicateRule" /\ first_matching_rule(ds.rules) = None

\* C26: a submit_processing whose rule creation fails raises nothing, leaves the
\* processing's rule_id None and the processing active; and the next submit_processing
\* on that processing attempts the creation again, calling add_replication_rule.
C26_FailedCreationRetried ==
    [][\A id \in DOMAIN processings :
          (/\ op'.name = "submit_processing" /\ op' # op
           /\ active_processings # <<>> /\ active_processings[1] = id
           /\ processings[id].rule_id = None)
             => /\ CreationFailed(op'.add)
                     => /\ op'.outcome = "returned"
                        /\ processings'[id].rule_id = None
                        /\ active_processings' = active_processings
                /\ (op.name = "submit_processing" /\ CreationFailed(op.add))
                     => rule_calls'[id] = rule_calls[id] + 1]_vars


\* What clean_next_poll_at(status) at the current time is to do to the table.
Cleaned(status) ==
    \A r \in RowIds :
        IF rows[r].status \in status
        THEN rows'[r] = [rows[r] EXCEPT !.next_poll_at = now]
        ELSE rows'[r] = rows[r]

\* Every Idle row of the cleaned statuses that Wanted admits is in the result of the
\* selection made at a strictly later time, unless the limit cut the result.
Repolled(Wanted(_)) ==
    (ret.name = "clean_next_poll_at" /\ ret'.name = "get_by_status" /\ now > ret.at)
        => \/ Truthy(ret'.q.bulk_size) /\ Len(ret'.result) = ret'.q.bulk_size
           \/ \A r \in RowIds :
                 (rows[r].status \in ret.status /\ rows[r].locking = Idle /\ Wanted(r))
                     => r \in Range(ret'.result)

AnyRow(r) == TRUE

\* The other clauses of the selection that followed: the period, the submitter.
PastOtherClauses(r) ==
    /\ Truthy(ret'.q.period) => rows[r].updated_at < now - ret'.q.period
    /\ ret'.q.submitter # None => rows[r].submitter = ret'.q.submitter

\* C27 as stated: clean_next_poll_at(status) sets next_poll_at to the current time for
\* every row whose status is in the set, Idle or Locked, and changes no other row;
\* every Idle row of the set is then returned by a due-work selection at any strictly
\* later time, subject to bulk_size.
C27_ForcesRepoll ==
    [][/\ (ret.name = "none" /\ ret'.name = "clean_next_poll_at") => Cleaned(ret'.status)
       /\ Repolled(AnyRow)]_vars

\* C27, amended: the same, the rows returned being those that also pass the
\* selection's period clause and, for processings, its submitter clause.
C27_ForcesRepollOfAdmitted ==
    [][/\ (ret.name = "none" /\ ret'.name = "clean_next_poll_at") => Cleaned(ret'.status)
       /\ Repolled(PastOtherClauses)]_vars

\* C27's case: a row whose next poll lay in the future, Idle and of a cleaned status,
\* was returned by a selection one time unit after clean_next_poll_at.
C27_Witness ==
    /\ ret.name = "get_by_status"
    /\ now = ret.at + 1
    /\ \E r \in Range(ret.result), s \in RowIds :
          /\ rows[r].next_poll_at = ret.at
          /\ rows[s].locking = Locking /\ rows[s].next_poll_at = ret.at


TerminalStatuses == {"Finished", "SubFinished", "Failed", "Lost", "Cancelled"}

\* Agent a1's claim on row 1, made at time 0, is no longer the row's claim: the row
\* has been reset by clean_locking, and perhaps claimed or released by agent a2 since.
ClaimLost == rows[1].locking = Idle \/ rows[1].updated_at # 0

\* C28: an update by agent a1 made after its claim on the row was reset by
\* clean_locking leaves the row's status, locking and next_poll_at as they are; and
\* no step moves a row from a terminal status to a non-terminal one.
C28_NoLateOverwrite ==
    [][/\ (pc["a1"] = "working" /\ pc'["a1"] # "working" /\ ClaimLost)
             => /\ rows'[1].status = rows[1].status
                /\ rows'[1].locking = rows[1].locking
                /\ rows'[1].next_poll_at = rows[1].next_poll_at
       /\ \A r \in RowIds :
             rows[r].status \in TerminalStatuses => rows'[r].status \in TerminalStatuses]_vars


\* Row r is due for the agents' selection.
Due(r) == IsDue(rows[r], AgentQuery(table, 1), now)

\* Row r is in the batch some agent was handed.
Claimed(r) == \E a \in Agents : r \in Range(batch[a])

\* C29: under fair repeated ticks no row stays due for ever without being included in
\* a claimed batch, whatever the priorities of the other due rows.
C29_NoStarvation ==
    \A r \in RowIds : []<>(~Due(r) \/ Claimed(r))

\* C29's case: the low-priority row is due and unclaimed while the high-priority row,
\* claimed and released before, is due again.
C29_Witness ==
    /\ table = "Transform"
    /\ Due(1) /\ Due(2) /\ ~Claimed(2)
    /\ rows[1].updated_at > rows[2].updated_at
    /\ \A a \in Agents : pc[a] = "idle"


\* The map table once the entries the last call returned are registered.
Registered == merge_maps(op.maps, op.new_keys)

\* C30: after any sequence of ticks whose returned entries are registered, no two
\* entries of the map table have the same primary input, whatever list_files
\* answered (listings that repeat a file included).
C30_NoDuplicatePrimary ==
    op.name \in GetNewNames =>
        \A j \in DOMAIN Registered, k \in DOMAIN Registered :
            j # k => get_mapped_inputs(Registered)[j].name # get_mapped_inputs(Registered)[k].name


\* The statuses a caller may hand to update_transform / update_processing.
UpdateStatuses(tbl) ==
    (IF tbl = "Transform" THEN {"New", "Transforming"} ELSE {"New", "Submitted"})
    \cup TerminalStatuses

\* Any caller's update_transform / update_processing(id, parameters): with or without
\* a status among the parameters.
UpdateRow ==
    /\ \E id \in RowIds, st \in UpdateStatuses(table),
          keys \in {{"locking"}, {"status"}, {"status", "locking"}} :
         rows' = update_row(table, rows, id, Params(keys, st, Idle, 0), now)
    /\ UNCHANGED <<table, now, pc, batch, workvars, storevars, tickvars>>

UpdateNext == UpdateRow \/ Tick

\* update_transform / update_processing under any sequence of calls, on rows as
\* created (status New, finished_at unset).
SpecUpdate == InitDB /\ [][UpdateNext]_vars

\* C31: finished_at tracks terminal status: every update that sets a terminal status
\* (Finished, SubFinished, Failed, Lost, Cancelled) also sets finished_at, so a row
\* whose status is terminal has finished_at set.
C31_FinishedAtTracksTerminal ==
    \A r \in RowIds : rows[r].status \in TerminalStatuses => rows[r].finished_at # -1


(***************************************************************************)
(* Refreshing the input collections.  A collection is a dict: keys is the  *)
(* set of keys it has, the other fields their values (None when absent).   *)
(***************************************************************************)
OtherColl == "other"

\* colls = [self.primary_input_collection] + self.other_input_collections
InputCollOrder == <<InputColl, OtherColl>>
InputColls == {InputColl, OtherColl}

\* coll_metadata: absent or empty, or a dict with is_open.
NoMetadata == [keys |-> {}, is_open |-> FALSE, total_files |-> 0]
Metadata(is_open, length) ==
    [keys |-> {"bytes", "total_files", "availability", "events", "is_open", "run_number",
               "did_type", "list_all_files"},
     is_open |-> is_open, total_files |-> length]

\* The collections a Work is handed: coll_id, scope, name, status, and perhaps
\* coll_metadata.
CollectionRows(c) ==
    {[keys |-> {"coll_id", "scope", "name", "status"}, coll_id |-> c, scope |-> "s",
      name |-> c, status |-> st, coll_metadata |-> NoMetadata]
        : st \in {"Open", "Closed"}}
    \cup {[keys |-> {"coll_id", "scope", "name", "status", "coll_metadata"}, coll_id |-> c,
           scope |-> "s", name |-> c, status |-> st, coll_metadata |-> md]
            : st \in {"Open", "Closed"},
              md \in {NoMetadata, Metadata(TRUE, 1), Metadata(FALSE, 1)}}
Collections == {cs \in [InputColls -> UNION {CollectionRows(c) : c \in InputColls}] :
                  \A c \in InputColls : cs[c] \in CollectionRows(c)}

\* What get_metadata does when asked: it answers the DID's metadata, or the call
\* raises.
MetadataAnswers ==
    {[kind |-> "raised", is_open |-> FALSE, length |-> 0]}
    \cup {[kind |-> "meta", is_open |-> o, length |-> n] : o \in BOOLEAN, n \in {1, 2}}

\* Line 79: the collection's metadata records is_open = false.
SeenClosed(coll) ==
    /\ "coll_metadata" \in coll.keys
    /\ "is_open" \in coll.coll_metadata.keys
    /\ ~coll.coll_metadata.is_open

\* poll_external_collection(coll): the collection as it is when seen closed;
\* otherwise the dict built from get_metadata's answer, or IDDSException.
poll_external_collection(coll, answer) ==
    IF SeenClosed(coll) THEN [coll |-> coll, called |-> FALSE, raised |-> FALSE]
    ELSE IF answer.kind = "raised" THEN [coll |-> coll, called |-> TRUE, raised |-> TRUE]
    ELSE [coll |-> [keys |-> {"scope", "name", "coll_metadata"},
                    coll_id |-> None, scope |-> coll.scope, name |-> coll.name,
                    status |-> None,
                    coll_metadata |-> Metadata(answer.is_open, answer.length)],
          called |-> TRUE, raised |-> FALSE]

\* get_input_collections: the loop of lines 105-108 over colls from position i, then
\* line 109, whose super(self) raises TypeError.
RECURSIVE get_input_collections(_, _, _, _)
get_input_collections(collections, answers, i, calls) ==
    IF i > Len(InputCollOrder)
    THEN [collections |-> collections, calls |-> calls, outcome |-> "TypeError"]
    ELSE LET c == InputCollOrder[i]
             r == poll_external_collection(collections[c], answers[c])
             asked == IF r.called THEN Append(calls, c) ELSE calls
         IN  IF r.raised
             THEN [collections |-> collections, calls |-> asked, outcome |-> "IDDSException"]
             ELSE get_input_collections([collections EXCEPT ![c] = r.coll], answers, i + 1, asked)

\* A transform tick's get_input_collections() on self.collections as the previous
\* call left them (as handed to the Work, for the first call).
GetInputCollections ==
    /\ \E before \in (IF ret = NoCall THEN Collections ELSE {ret.collections}),
          answers \in [InputColls -> MetadataAnswers] :
         LET r == get_input_collections(before, answers, 1, <<>>)
         IN  ret' = [name |-> "get_input_collections", before |-> before,
                     collections |-> r.collections, calls |-> r.calls, outcome |-> r.outcome]
    /\ UNCHANGED <<dbvars, workvars, messages, req2transform, wp2transform, session, next_id,
                   tickvars>>

\* get_input_collections over successive ticks of one Work.
SpecColls == InitDB /\ [][GetInputCollections]_vars

\* A collection seen closed is returned as it is, and get_metadata is not asked
\* about it.
ClosedKept ==
    ret.name = "get_input_collections" =>
        \A c \in InputColls :
            SeenClosed(ret.before[c]) =>
                /\ ret.collections[c] = ret.before[c]
                /\ \A i \in DOMAIN ret.calls : ret.calls[i] # c

\* C32: refreshing the input collections keeps each collection's coll_id, scope, name
\* and status and replaces only coll_metadata; a collection whose coll_metadata
\* records is_open = false is returned unchanged, with no DataService call.
C32_RefreshFrame ==
    /\ ClosedKept
    /\ ret.name = "get_input_collections" =>
         \A c \in InputColls, k \in {"coll_id", "scope", "name", "status"} :
            k \in ret.before[c].keys =>
                /\ k \in ret.collections[c].keys
                /\ ret.collections[c][k] = ret.before[c][k]

====
